---- MODULE Spec2Model ----
(***************************************************************************)
(* Todo record lifecycle of the oRPC sample: the todos table, the two     *)
(* TodoStore implementations found in the sources (Drizzle ORM on SQLite  *)
(* and hand-written SQL on PostgreSQL), the zod input schemas, the oRPC   *)
(* router, the REST route handlers and the server-side fetch services.    *)
(*                                                                         *)
(* Strings are sequences of one-character strings.  An optional value is  *)
(* a sequence of length 0 (undefined / NULL) or 1 (the value).            *)
(***************************************************************************)
EXTENDS Integers, Sequences, FiniteSets, TLC

VARIABLES
    backend,   \* which TodoStore is deployed: "drizzle" or "pg"
    table,     \* the rows of the todos table
    issued,    \* every id crypto.randomUUID / uuid_generate_v4 has returned
    now,       \* the wall clock read by unixepoch(), NOW() and new Date()
    inflight,  \* handlers suspended at the await of a store call that writes
    last,      \* the response the last handler gave, until its caller takes it
    page,      \* the todo page in the browser (TodoPageClient)
    view,      \* the last application of a helper: its input and its result
    home       \* the local todo list of the client-fetching home page (page.tsx)

vars == <<backend, table, issued, now, inflight, last, page, view, home>>

(***************************************************************************)
(* Bounds of the model.                                                    *)
(***************************************************************************)
MaxTodos == 2      \* ids the generator may issue in one behaviour
MaxClock == 1      \* last clock reading
MaxRows == 1       \* rows present at the same time
MaxInflight == 2   \* handlers suspended at the same time
MaxLen == 3        \* length of a Todo sequence given to a derived-view helper

(***************************************************************************)
(* Program constants.                                                      *)
(***************************************************************************)
TitleMaxLen == 255
DescriptionMaxLen == 1000
VarcharTitleLen == 100
FormTitleMaxLen == 100
FormDescriptionMaxLen == 500

UUIDs == 1..MaxTodos
Times == 0..MaxClock

None == <<>>
Some(x) == <<x>>
IsSome(o) == Len(o) = 1
Get(o) == o[1]

(***************************************************************************)
(* Strings.                                                                *)
(***************************************************************************)
Rep(c, n) == [i \in 1..n |-> c]
Str_empty == <<>>
Str_blank == <<" ", " ">>
Str_a == <<"a">>
Str_d == <<"d">>

IsSpace(c) == c = " "

RECURSIVE TrimStart(_)
TrimStart(s) ==
    IF s # <<>> /\ IsSpace(Head(s)) THEN TrimStart(Tail(s)) ELSE s

RECURSIVE TrimEnd(_)
TrimEnd(s) ==
    IF s # <<>> /\ IsSpace(s[Len(s)]) THEN TrimEnd(SubSeq(s, 1, Len(s) - 1)) ELSE s

\* String.prototype.trim
Trim(s) == TrimEnd(TrimStart(s))

\* JavaScript truthiness of an optional string: undefined, null and "" are falsy
Truthy(o) == IsSome(o) /\ Get(o) # <<>>

(***************************************************************************)
(* Request payloads.  A payload is the JSON body sent by a client: the    *)
(* three known fields and, possibly, keys the schemas do not list.        *)
(***************************************************************************)
Payload(t, d, c, i, ca) ==
    [title |-> t, description |-> d, completed |-> c, id |-> i, createdAt |-> ca]

NoExtra(p) == p.id = None /\ p.createdAt = None

\* the fields the schemas list
Known == {"title", "description", "completed"}

\* The fields a parsed input carries
Given(p) ==
    {f \in {"title", "description", "completed", "id", "createdAt"} :
        CASE f = "title" -> IsSome(p.title)
          [] f = "description" -> IsSome(p.description)
          [] f = "completed" -> IsSome(p.completed)
          [] f = "id" -> IsSome(p.id)
          [] f = "createdAt" -> IsSome(p.createdAt)}

CreatePayloads ==
    { Payload(Some(Str_a), None, None, None, None),
      Payload(Some(Str_a), Some(Str_d), None, None, None),
      Payload(Some(Str_a), None, Some(TRUE), None, None),
      Payload(Some(Str_blank), None, None, None, None),
      Payload(Some(Str_empty), None, None, None, None),
      Payload(None, Some(Str_d), None, None, None),
      Payload(Some(Rep("a", TitleMaxLen + 1)), Some(Rep("d", DescriptionMaxLen + 1)), None, None, None) }
    \cup { Payload(Some(Str_a), None, None, Some(1), Some(MaxClock)) }

UpdatePayloads ==
    { Payload(None, None, None, None, None),
      Payload(Some(Str_a), None, None, None, None),
      Payload(None, Some(Str_d), None, None, None),
      Payload(None, None, Some(TRUE), None, None),
      Payload(None, None, Some(FALSE), None, None),
      Payload(Some(Str_blank), None, None, None, None),
      Payload(Some(Str_empty), None, None, None, None),
      Payload(Some(Rep("a", TitleMaxLen + 1)), Some(Rep("d", DescriptionMaxLen + 1)), None, None, None) }
    \cup { Payload(None, None, Some(TRUE), Some(1), Some(MaxClock)),
           Payload(None, None, None, Some(1), Some(MaxClock)) }

\* payloads with the description absent, empty and filled in
DescriptionCreatePayloads ==
    { Payload(Some(Str_a), None, None, None, None),
      Payload(Some(Str_a), Some(Str_empty), None, None, None),
      Payload(Some(Str_a), Some(Str_d), None, None, None) }

DescriptionUpdatePayloads ==
    { Payload(None, Some(Str_empty), None, None, None),
      Payload(None, Some(Str_d), None, None, None),
      Payload(None, None, Some(TRUE), None, None) }

\* payloads with titles at the width of the title column, beyond it, and at
\* the limit of the schemas
TitleCreatePayloads ==
    { Payload(Some(Rep("a", n)), None, None, None, None) :
        n \in {VarcharTitleLen, VarcharTitleLen + 1, TitleMaxLen} }

TitleUpdatePayloads ==
    { Payload(Some(Rep("b", n)), None, None, None, None) :
        n \in {VarcharTitleLen, VarcharTitleLen + 1, TitleMaxLen} }

\* the payloads of callers that run at the same time
ConcurrentCreatePayloads ==
    { Payload(Some(Str_a), None, None, None, None),
      Payload(Some(Str_empty), None, None, None, None) }

ConcurrentUpdatePayloads ==
    { Payload(Some(Str_blank), None, None, None, None),
      Payload(None, None, Some(TRUE), None, None),
      Payload(None, None, Some(FALSE), None, None),
      Payload(Some(Str_empty), None, None, None, None) }

(***************************************************************************)
(* zod schemas.  A parse yields the violated fields, or the parsed data:  *)
(* z.object keeps the listed keys and strips every other key.             *)
(***************************************************************************)
\* a title check that lets every string pass
TitleOkAny(s) == TRUE

\* z.string().min(1, ...).max(255, ...)
TitleOk(s) == Len(s) >= 1 /\ Len(s) <= TitleMaxLen

\* z.string().max(1000, ...)
DescriptionOk(s) == Len(s) <= DescriptionMaxLen

\* keys of the todos table the schema does not list are dropped by the parse
StripUnknown(p) == [p EXCEPT !.id = None, !.createdAt = None]

\* insertTodoSchema: title required, description and completed optional
insertTodoSchema(p) ==
    LET bad == {f \in {"title", "description"} :
                  \/ f = "title" /\ (~IsSome(p.title) \/ ~TitleOk(Get(p.title)))
                  \/ f = "description" /\ IsSome(p.description)
                       /\ ~DescriptionOk(Get(p.description))}
    IN  [ok |-> bad = {}, fields |-> bad, data |-> p]

\* the insert schema without the .omit(): id and createdAt come from the client
CreateTodoSchemaNoOmit(p) == insertTodoSchema(p)

\* insertTodoSchema.omit({ id, createdAt, updatedAt })
CreateTodoSchema(p) ==
    LET r == insertTodoSchema(p)
    IN  [r EXCEPT !.data = StripUnknown(p)]

\* the update schema with .passthrough(): unknown keys are kept
UpdateTodoSchemaPassthrough(p) ==
    LET bad == {f \in {"title", "description"} :
                  \/ f = "title" /\ IsSome(p.title) /\ ~TitleOk(Get(p.title))
                  \/ f = "description" /\ IsSome(p.description)
                       /\ ~DescriptionOk(Get(p.description))}
    IN  [ok |-> bad = {}, fields |-> bad, data |-> p]

\* z.object({ title?, description?, completed? })
UpdateTodoSchema(p) ==
    LET bad == {f \in {"title", "description"} :
                  \/ f = "title" /\ IsSome(p.title) /\ ~TitleOk(Get(p.title))
                  \/ f = "description" /\ IsSome(p.description)
                       /\ ~DescriptionOk(Get(p.description))}
    IN  [ok |-> bad = {}, fields |-> bad, data |-> StripUnknown(p)]

(***************************************************************************)
(* The todos table.  A row is                                              *)
(*   [id, title, description, completed, created_at, updated_at]          *)
(* with description None for NULL.                                         *)
(***************************************************************************)
Row(i, t, d, c, ca, ua) ==
    [id |-> i, title |-> t, description |-> d, completed |-> c,
     created_at |-> ca, updated_at |-> ua]

Find(rows, i) == {r \in rows : r.id = i}

Ids(rows) == {r.id : r \in rows}

\* a generator that returns the same value again
repeatedUUID(used) == {u \in UUIDs : \A w \in UUIDs : u <= w}

\* crypto.randomUUID() / uuid_generate_v4(): a value never returned before.
\* Ids are opaque, so the generator is taken to return the least unused one.
randomUUID(used) == {u \in UUIDs \ used : \A w \in UUIDs \ used : u <= w}

\* VARCHAR(100): a longer value is an error unless the excess is all spaces,
\* which is cut off
Varchar100(s) ==
    IF Len(s) <= VarcharTitleLen THEN Some(s)
    ELSE IF \A k \in (VarcharTitleLen + 1)..Len(s) : IsSpace(s[k])
         THEN Some(SubSeq(s, 1, VarcharTitleLen))
         ELSE None

\* db.select(): the row with camel-cased keys, NULL as null
DrizzleTodo(r) ==
    [id |-> r.id, title |-> r.title, description |-> r.description,
     completed |-> r.completed, createdAt |-> r.created_at, updatedAt |-> r.updated_at]

\* the row mapping of the PostgreSQL store: description: row.description || undefined
PgTodo(r) ==
    [id |-> r.id, title |-> r.title,
     description |-> IF Truthy(r.description) THEN r.description ELSE None,
     completed |-> r.completed, createdAt |-> r.created_at, updatedAt |-> r.updated_at]

RowToTodo(b, r) == IF b = "pg" THEN PgTodo(r) ELSE DrizzleTodo(r)

\* results of a store call
StoreError(rows) == [kind |-> "error", rows |-> rows, todo |-> None]
StoreNull(rows) == [kind |-> "null", rows |-> rows, todo |-> None]
StoreOk(rows, todo) == [kind |-> "ok", rows |-> rows, todo |-> Some(todo)]

(***************************************************************************)
(* TodoStore on Drizzle ORM / SQLite.                                      *)
(***************************************************************************)
\* getById: db.select().from(todos).where(eq(todos.id, id)); result[0] || null
DrizzleGetById(rows, i, io) ==
    IF io = "fail" THEN StoreError(rows)
    ELSE IF Find(rows, i) = {} THEN StoreNull(rows)
    ELSE StoreOk(rows, DrizzleTodo(CHOOSE r \in Find(rows, i) : TRUE))

\* create: db.insert(todos).values(input).returning(); a column missing from
\* input takes its default: randomUUID(), false, unixepoch(), unixepoch()
DrizzleCreate(rows, input, fresh, t, io) ==
    LET i == IF IsSome(input.id) THEN Get(input.id) ELSE fresh
        r == Row(i, Get(input.title), input.description,
                 IF IsSome(input.completed) THEN Get(input.completed) ELSE FALSE,
                 IF IsSome(input.createdAt) THEN Get(input.createdAt) ELSE t,
                 t)
    IN  IF io = "fail" \/ Find(rows, i) # {} THEN StoreError(rows)
        ELSE StoreOk(rows \cup {r}, DrizzleTodo(r))

\* an update that writes all three fields, the missing ones as NULL / false
DrizzleUpdateReplace(rows, i, input, t, io) ==
    IF Given(input) = {} \/ io = "fail" THEN StoreError(rows)
    ELSE IF Find(rows, i) = {} THEN StoreNull(rows)
    ELSE LET old == CHOOSE r \in Find(rows, i) : TRUE
             new == Row(old.id,
                        IF IsSome(input.title) THEN Get(input.title) ELSE old.title,
                        input.description,
                        IF IsSome(input.completed) THEN Get(input.completed) ELSE FALSE,
                        old.created_at,
                        t)
         IN  StoreOk((rows \ {old}) \cup {new}, DrizzleTodo(new))

\* update: db.update(todos).set(input).where(eq(todos.id, id)).returning().
\* set() throws 'No values to set' when every value of input is undefined;
\* updated_at is not in input and takes $onUpdate(() => new Date()).
DrizzleUpdate(rows, i, input, t, io) ==
    IF Given(input) = {} \/ io = "fail" THEN StoreError(rows)
    ELSE IF Find(rows, i) = {} THEN StoreNull(rows)
    ELSE LET old == CHOOSE r \in Find(rows, i) : TRUE
             new == Row(IF IsSome(input.id) THEN Get(input.id) ELSE old.id,
                        IF IsSome(input.title) THEN Get(input.title) ELSE old.title,
                        IF IsSome(input.description) THEN input.description
                                                     ELSE old.description,
                        IF IsSome(input.completed) THEN Get(input.completed)
                                                   ELSE old.completed,
                        IF IsSome(input.createdAt) THEN Get(input.createdAt)
                                                   ELSE old.created_at,
                        t)
         IN  IF Find(rows \ {old}, new.id) # {} THEN StoreError(rows)
             ELSE StoreOk((rows \ {old}) \cup {new}, DrizzleTodo(new))

(***************************************************************************)
(* TodoStore on PostgreSQL.                                                *)
(***************************************************************************)
\* getById: SELECT ... WHERE id = $1
PgGetById(rows, i, io) ==
    IF io = "fail" THEN StoreError(rows)
    ELSE IF Find(rows, i) = {} THEN StoreNull(rows)
    ELSE StoreOk(rows, PgTodo(CHOOSE r \in Find(rows, i) : TRUE))

\* create: INSERT INTO todos (title, description) VALUES ($1, $2) with
\* [input.title, input.description || null]; the other columns take their
\* defaults uuid_generate_v4(), FALSE, NOW(), NOW()
PgCreate(rows, input, fresh, t, io) ==
    LET title == Varchar100(Get(input.title))
        r == Row(fresh, Get(title),
                 IF Truthy(input.description) THEN input.description ELSE None,
                 FALSE, t, t)
    IN  IF io = "fail" \/ title = None \/ Find(rows, fresh) # {} THEN StoreError(rows)
        ELSE StoreOk(rows \cup {r}, PgTodo(r))

\* the update without the BEFORE UPDATE trigger: updated_at is left alone
PgUpdateNoTrigger(rows, i, input, t, io) ==
    IF Given(input) \cap {"title", "description", "completed"} = {}
    THEN PgGetById(rows, i, io)
    ELSE IF io = "fail" THEN StoreError(rows)
    ELSE IF Find(rows, i) = {} THEN StoreNull(rows)
    ELSE LET old == CHOOSE r \in Find(rows, i) : TRUE
             new == Row(old.id,
                        IF IsSome(input.title) THEN Get(input.title) ELSE old.title,
                        IF IsSome(input.description) THEN input.description
                                                     ELSE old.description,
                        IF IsSome(input.completed) THEN Get(input.completed)
                                                   ELSE old.completed,
                        old.created_at,
                        old.updated_at)
         IN  StoreOk((rows \ {old}) \cup {new}, PgTodo(new))

\* update: builds SET from the three known fields; with none of them it
\* returns getById(id); the BEFORE UPDATE trigger sets updated_at = NOW()
PgUpdate(rows, i, input, t, io) ==
    IF Given(input) \cap {"title", "description", "completed"} = {}
    THEN PgGetById(rows, i, io)
    ELSE IF io = "fail" THEN StoreError(rows)
    ELSE IF Find(rows, i) = {} THEN StoreNull(rows)
    ELSE LET old == CHOOSE r \in Find(rows, i) : TRUE
             title == IF IsSome(input.title) THEN Varchar100(Get(input.title))
                                             ELSE Some(old.title)
             new == Row(old.id, Get(title),
                        IF IsSome(input.description) THEN input.description
                                                     ELSE old.description,
                        IF IsSome(input.completed) THEN Get(input.completed)
                                                   ELSE old.completed,
                        old.created_at,
                        t)
         IN  IF title = None THEN StoreError(rows)
             ELSE StoreOk((rows \ {old}) \cup {new}, PgTodo(new))

(***************************************************************************)
(* The deployed store (todoStore singleton).                               *)
(***************************************************************************)
getById(b, rows, i, io) ==
    IF b = "pg" THEN PgGetById(rows, i, io) ELSE DrizzleGetById(rows, i, io)

create(b, rows, input, fresh, t, io) ==
    IF b = "pg" THEN PgCreate(rows, input, fresh, t, io)
    ELSE DrizzleCreate(rows, input, fresh, t, io)

\* an update that writes every column, the ones its input leaves out with
\* their defaults
updateAllColumns(b, rows, i, input, t, io) ==
    IF io = "fail" THEN StoreError(rows)
    ELSE IF Find(rows, i) = {} THEN StoreNull(rows)
    ELSE LET old == CHOOSE r \in Find(rows, i) : TRUE
             new == Row(old.id,
                        IF IsSome(input.title) THEN Get(input.title) ELSE old.title,
                        input.description,
                        IF IsSome(input.completed) THEN Get(input.completed) ELSE FALSE,
                        old.created_at,
                        t)
         IN  StoreOk((rows \ {old}) \cup {new}, RowToTodo(b, new))

update(b, rows, i, input, t, io) ==
    IF b = "pg" THEN PgUpdate(rows, i, input, t, io)
    ELSE DrizzleUpdate(rows, i, input, t, io)

\* a delete that reports a removal whenever the statement ran (rowCount !== null)
deleteAnyRowCount(rows, i, io) ==
    IF io = "fail" THEN [kind |-> "error", rows |-> rows, removed |-> FALSE]
    ELSE [kind |-> "ok", rows |-> rows \ Find(rows, i), removed |-> TRUE]

\* a delete without its WHERE clause, as deleteAll has it
deleteEveryRow(rows, i, io) ==
    IF io = "fail" THEN [kind |-> "error", rows |-> rows, removed |-> FALSE]
    ELSE [kind |-> "ok", rows |-> {}, removed |-> Find(rows, i) # {}]

\* delete: DELETE ... WHERE id; true when a row was removed.  Both stores.
delete(rows, i, io) ==
    IF io = "fail" THEN [kind |-> "error", rows |-> rows, removed |-> FALSE]
    ELSE [kind |-> "ok", rows |-> rows \ Find(rows, i), removed |-> Find(rows, i) # {}]

\* a getAll without ORDER BY: the rows in any order
getAllUnordered(b, rows) ==
    {s \in [1..Cardinality(rows) -> {RowToTodo(b, r) : r \in rows}] :
        \A j, k \in 1..Cardinality(rows) : j # k => s[j].id # s[k].id}

\* getAll: every row ORDER BY created_at DESC; rows with equal created_at
\* come in any order.  The set of sequences the query may return.
getAll(b, rows) ==
    {s \in [1..Cardinality(rows) -> {RowToTodo(b, r) : r \in rows}] :
        /\ \A j, k \in 1..Cardinality(rows) : j # k => s[j].id # s[k].id
        /\ \A j, k \in 1..Cardinality(rows) : j < k => s[j].createdAt >= s[k].createdAt}

(***************************************************************************)
(* Responses.  outcome is                                                  *)
(*   "ok"         a value came back (a Todo, a list, { success })         *)
(*   "null"       the procedure or service returned null                  *)
(*   "notfound"   a route answered 404 { error: 'Todo not found' }        *)
(*   "validation" the oRPC input schema rejected the payload; fields      *)
(*                names the violated fields                               *)
(*   "error"      the handler threw, or a route answered with its generic *)
(*                { error: 'Failed to ...' } body, which is also what a   *)
(*                route answers when the parse of the payload threw       *)
(* io records whether a storage call of the handler failed, reached       *)
(* whether the handler came to call the store at all, extra whether the   *)
(* payload carried keys its schema does not list, before the record the   *)
(* request names as it was when the handler made its last store call, and *)
(* raced the fields of that record other handlers wrote while this one    *)
(* was suspended.                                                          *)
(***************************************************************************)
NoPayload == Payload(None, None, None, None, None)

Idle ==
    [op |-> "none", id |-> None, data |-> NoPayload, outcome |-> "ok", io |-> "ok",
     reached |-> FALSE, extra |-> FALSE, before |-> None,
     todo |-> None, list |-> <<>>, success |-> None, fields |-> {}, raced |-> {}]

\* the record with id i as the store reads it, if present
Before(b, rows, i) ==
    IF Find(rows, i) = {} THEN None
    ELSE Some(RowToTodo(b, CHOOSE r \in Find(rows, i) : TRUE))

Response(op, i, data, outcome, io) ==
    [Idle EXCEPT !.op = op, !.id = i, !.data = data, !.outcome = outcome, !.io = io,
                 !.reached = TRUE,
                 !.before = IF IsSome(i) THEN Before(backend, table, Get(i)) ELSE None]

\* the payload did not pass the schema: the store is not called
Rejected(op, i, outcome, fields) ==
    [Idle EXCEPT !.op = op, !.id = i, !.outcome = outcome, !.fields = fields]

IsError(r) == r.outcome \in {"notfound", "validation", "error"}

\* a procedure that catches the throw of the store and returns null
ProcedureResultSwallowed(op, i, data, io, res) ==
    [Response(op, i, data, IF res.kind = "error" THEN "null" ELSE res.kind, io)
        EXCEPT !.todo = res.todo]

\* what an oRPC procedure gives for the result of a store call
ProcedureResult(op, i, data, io, res) ==
    [Response(op, i, data, IF res.kind = "error" THEN "error" ELSE res.kind, io)
        EXCEPT !.todo = res.todo]

\* what a route handler gives for it: null becomes 404, a throw the generic body
RouteResult(op, i, data, io, res) ==
    [Response(op, i, data,
              CASE res.kind = "error" -> "error"
                [] res.kind = "null" -> "notfound"
                [] OTHER -> "ok", io)
        EXCEPT !.todo = res.todo]

(***************************************************************************)
(* The todo page (TodoPageClient).  initialTodos is the list the server   *)
(* component passed down, cache the answer of 'todos/list' that fetch     *)
(* keeps for its revalidate period, optimistic the actions given to       *)
(* addOptimisticTodo by transitions that are still pending, calls the     *)
(* handlers whose transition is pending, refresh whether router.refresh() *)
(* was called and the server component has not rendered since, and done   *)
(* the handler that finished last, until another handler starts.          *)
(***************************************************************************)
FirstPage ==
    [initialTodos |-> <<>>, cache |-> <<>>, optimistic |-> <<>>, calls |-> {},
     refresh |-> FALSE, done |-> None, batch |-> "none", snapshot |-> {}]

\* `temp-${Date.now()}`: not an id of the store
TempId(t) == 0 - 1 - t

\* the optimistic todo of handleCreateTodo
OptimisticTodo(data, t) ==
    [id |-> TempId(t), title |-> Get(data.title), description |-> data.description,
     completed |-> FALSE, createdAt |-> t, updatedAt |-> t]

OptimisticAction(type, todo, i, data) ==
    [type |-> type, todo |-> todo, id |-> i, data |-> data]

\* { ...todo, ...action.data }
Spread(todo, data) ==
    [todo EXCEPT !.title = IF IsSome(data.title) THEN Get(data.title) ELSE @,
                 !.description = IF IsSome(data.description) THEN data.description ELSE @,
                 !.completed = IF IsSome(data.completed) THEN Get(data.completed) ELSE @]

\* the reducer given to useOptimistic
optimisticReducer(state, action) ==
    LET Other(todo) == todo.id # Get(action.id)
    IN  CASE action.type = "add" -> <<Get(action.todo)>> \o state
          [] action.type = "update" ->
                 [k \in DOMAIN state |->
                     IF state[k].id = Get(action.id) THEN Spread(state[k], action.data)
                                                     ELSE state[k]]
          [] action.type = "delete" -> SelectSeq(state, Other)
          [] OTHER -> state

RECURSIVE Reduce(_, _)
Reduce(state, actions) ==
    IF actions = <<>> THEN state
    ELSE Reduce(optimisticReducer(state, Head(actions)), Tail(actions))

\* optimisticTodos: the list the page displays
optimisticTodos(pg) == Reduce(pg.initialTodos, pg.optimistic)

\* a page that keeps the optimistic actions of a handler that failed
revertOnSuccess(queue, rest, answer) ==
    IF rest = {} /\ answer = "ok" THEN <<>> ELSE queue

\* useOptimistic: the optimistic actions are dropped when the last pending
\* transition has finished, however it finished
revertOptimistic(queue, rest, answer) ==
    IF rest = {} THEN <<>> ELSE queue

Call(c, op, i, data) ==
    [caller |-> c, op |-> op, id |-> i, data |-> data, answer |-> "none"]

\* the arguments of batchUpdateTodos and batchDeleteTodos: up to MaxInflight
\* items, each with the id it names
BatchUpdates ==
    UNION {[1..n -> {[id |-> i, data |-> d] :
                        i \in UUIDs,
                        d \in {Payload(None, None, Some(TRUE), None, None),
                               Payload(None, None, Some(FALSE), None, None)}}] :
             n \in 1..MaxInflight}

BatchDeletes == UNION {[1..n -> UUIDs] : n \in 1..MaxInflight}

\* the store after a catch that restores what the batch found
rolledBack(rows, snapshot) == snapshot

\* the store after the catch of a batch: router.refresh() and throw error
afterCatch(rows, snapshot) == rows

\* what the form and the items of the list submit
PageCreateInputs ==
    { Payload(Some(Str_a), Some(Str_d), None, None, None) }

PageUpdateInputs ==
    { Payload(None, None, Some(TRUE), None, None),
      Payload(None, None, Some(FALSE), None, None) }

(***************************************************************************)
(* Derived views (todoHelpers.ts, todoService.ts, TodoPageClient).        *)
(***************************************************************************)
\* code units of the characters that occur
CharCode(c) ==
    CASE c = " " -> 32 [] c = "A" -> 65 [] c = "B" -> 66
      [] c = "a" -> 97 [] c = "b" -> 98 [] c = "d" -> 100

\* a conversion that keeps the case
keepCase(s) == s

\* String.prototype.toLowerCase
LowerChar(c) == CASE c = "A" -> "a" [] c = "B" -> "b" [] OTHER -> c
toLowerCase(s) == [k \in DOMAIN s |-> LowerChar(s[k])]

\* String.prototype.includes
includes(s, t) ==
    \E k \in 0..(Len(s) - Len(t)) : SubSeq(s, k + 1, k + Len(t)) = t

\* s < t on strings: by code units, a proper prefix first
RECURSIVE StrLess(_, _)
StrLess(s, t) ==
    IF t = <<>> THEN FALSE
    ELSE IF s = <<>> THEN TRUE
    ELSE IF CharCode(Head(s)) # CharCode(Head(t)) THEN CharCode(Head(s)) < CharCode(Head(t))
    ELSE StrLess(Tail(s), Tail(t))

\* Array.prototype.filter: the elements at the indices K, in their order
Pick(todos, K) ==
    [j \in 1..Cardinality(K) |->
        todos[CHOOSE k \in K : Cardinality({m \in K : m < k}) = j - 1]]

NoFilter == [completed |-> None, search |-> None]

\* a callback that keeps every record
keepAll(todo, filter) == TRUE

\* the callback of filterTodos; the same code filters in TodoPageClient and
\* in todoService.ts
filterCallback(todo, filter) ==
    IF IsSome(filter.completed) /\ todo.completed # Get(filter.completed) THEN FALSE
    ELSE IF Truthy(filter.search)
         THEN LET search == toLowerCase(Get(filter.search))
              IN  \/ includes(toLowerCase(todo.title), search)
                  \/ /\ IsSome(todo.description)
                     /\ includes(toLowerCase(Get(todo.description)), search)
         ELSE TRUE

filterTodos(todos, filter) ==
    Pick(todos, {k \in DOMAIN todos : filterCallback(todos[k], filter)})

groupTodosByStatus(todos) ==
    [completed |-> Pick(todos, {k \in DOMAIN todos : todos[k].completed}),
     pending |-> Pick(todos, {k \in DOMAIN todos : ~todos[k].completed})]

\* the comparator of sortTodos: -1, 0 or 1
compareTodos(a, b, sortBy, order) ==
    LET less(x, y) ==
            CASE sortBy = "title" -> StrLess(toLowerCase(x.title), toLowerCase(y.title))
              [] sortBy = "completed" -> x.completed = FALSE /\ y.completed = TRUE
              [] sortBy = "updatedAt" -> x.updatedAt < y.updatedAt
              [] OTHER -> x.createdAt < y.createdAt
    IN  IF less(a, b) THEN (IF order = "asc" THEN 0 - 1 ELSE 1)
        ELSE IF less(b, a) THEN (IF order = "asc" THEN 1 ELSE 0 - 1)
        ELSE 0

\* an insertion that puts an element in front of the elements it equals
RECURSIVE insertBeforeEquals(_, _, _, _)
insertBeforeEquals(sorted, x, sortBy, order) ==
    IF sorted = <<>> THEN <<x>>
    ELSE IF compareTodos(sorted[Len(sorted)], x, sortBy, order) < 0
         THEN Append(sorted, x)
         ELSE Append(insertBeforeEquals(SubSeq(sorted, 1, Len(sorted) - 1), x, sortBy, order),
                     sorted[Len(sorted)])

\* Array.prototype.sort is stable: an element goes behind every element
\* already placed that does not compare greater than it
RECURSIVE Insert(_, _, _, _)
Insert(sorted, x, sortBy, order) ==
    IF sorted = <<>> THEN <<x>>
    ELSE IF compareTodos(sorted[Len(sorted)], x, sortBy, order) <= 0
         THEN Append(sorted, x)
         ELSE Append(Insert(SubSeq(sorted, 1, Len(sorted) - 1), x, sortBy, order),
                     sorted[Len(sorted)])

RECURSIVE SortFrom(_, _, _, _)
SortFrom(sorted, todos, sortBy, order) ==
    IF todos = <<>> THEN sorted
    ELSE SortFrom(Insert(sorted, Head(todos), sortBy, order), Tail(todos), sortBy, order)

\* [...todos].sort(comparator)
sortTodos(todos, sortBy, order) == SortFrom(<<>>, todos, sortBy, order)

\* a percentage cut off at the decimal point
TruncPercent(completed, total) == (100 * completed) \div total

\* the caller's array after a sort that runs on the array itself
sortedInPlace(todos, sortBy, order) == sortTodos(todos, sortBy, order)

\* the caller's array after sortTodos: the sort runs on the copy [...todos]
todosAfterSort(todos, sortBy, order) == todos

\* Math.round((completed / total) * 100)
RoundPercent(completed, total) == (200 * completed + total) \div (2 * total)

NoStats == [total |-> 0, completed |-> 0, pending |-> 0, completionRate |-> 0]

\* statistics that count every record as pending
statsAllPending(todos) ==
    [total |-> Len(todos),
     completed |-> Cardinality({k \in DOMAIN todos : todos[k].completed}),
     pending |-> Len(todos), completionRate |-> 0]

\* calculateTodoStats; getTodoStats of todoService.ts has the same body
calculateTodoStats(todos) ==
    LET total == Len(todos)
        completed == Cardinality({k \in DOMAIN todos : todos[k].completed})
    IN  [total |-> total, completed |-> completed, pending |-> total - completed,
         completionRate |-> IF total > 0 THEN RoundPercent(completed, total) ELSE 0]

(***************************************************************************)
(* Validation in the browser (todoHelpers.ts, TodoForm).                   *)
(***************************************************************************)
FormInput(t, d) == [title |-> t, description |-> d]

NoErrors == [title |-> None, description |-> None]

\* a validation that stops at the first violated field
validateFirstOnly(input) ==
    IF ~Truthy(input.title) \/ Len(Trim(Get(input.title))) = 0
    THEN [isValid |-> FALSE, errors |-> <<"title is required">>]
    ELSE IF Len(Get(input.title)) > FormTitleMaxLen
    THEN [isValid |-> FALSE, errors |-> <<"title is too long">>]
    ELSE IF Truthy(input.description) /\ Len(Get(input.description)) > FormDescriptionMaxLen
    THEN [isValid |-> FALSE, errors |-> <<"description is too long">>]
    ELSE [isValid |-> TRUE, errors |-> <<>>]

\* validateTodoInput: the messages are pushed in this order
validateTodoInput(input) ==
    LET forTitle ==
            IF ~Truthy(input.title) \/ Len(Trim(Get(input.title))) = 0
            THEN <<"title is required">>
            ELSE IF Len(Get(input.title)) > FormTitleMaxLen
                 THEN <<"title is too long">>
                 ELSE <<>>
        forDescription ==
            IF Truthy(input.description) /\ Len(Get(input.description)) > FormDescriptionMaxLen
            THEN <<"description is too long">>
            ELSE <<>>
        errors == forTitle \o forDescription
    IN  [isValid |-> Len(errors) = 0, errors |-> errors]

\* the checks of TodoForm.handleSubmit on the two text fields of the form
newErrors(title, description) ==
    [title |->
        IF Trim(title) = <<>> THEN Some("title is required")
        ELSE IF Len(Trim(title)) > FormTitleMaxLen THEN Some("title is too long")
        ELSE None,
     description |->
        IF Len(Trim(description)) > FormDescriptionMaxLen
        THEN Some("description is too long")
        ELSE None]

\* what TodoForm.handleSubmit hands to onSubmit
submitted(title, description) ==
    Payload(Some(Trim(title)),
            IF Trim(description) = <<>> THEN None ELSE Some(Trim(description)),
            None, None, None)

NoView ==
    [fn |-> "none", todos |-> <<>>, filter |-> NoFilter, sortBy |-> "createdAt",
     order |-> "desc", out |-> <<>>, rest |-> <<>>, stats |-> NoStats,
     input |-> FormInput(None, None), isValid |-> FALSE, errors |-> <<>>,
     newErrors |-> NoErrors, issues |-> {}, passed |-> None]

\* titles and descriptions around the limits of the form and of the schemas
FormTitles ==
    { None, Some(Str_empty), Some(Str_blank), Some(Str_a), Some(<<" ", "a", " ">>),
      Some(Rep("a", FormTitleMaxLen + 1)),
      Some(<<" ">> \o Rep("a", FormTitleMaxLen) \o <<" ">>),
      Some(Rep("a", TitleMaxLen + 1)),
      Some(<<" ">> \o Rep("a", TitleMaxLen)) }

FormDescriptions ==
    { None, Some(Str_empty), Some(Str_d), Some(<<" ", "d", " ">>),
      Some(Rep("d", FormDescriptionMaxLen + 1)),
      Some(<<" ">> \o Rep("d", FormDescriptionMaxLen) \o <<" ">>),
      Some(Rep("d", DescriptionMaxLen + 1)) }

FormInputs == {FormInput(t, d) : t \in FormTitles, d \in FormDescriptions}

\* Todo sequences: the record at position k has id k
ViewAttrs ==
    { <<Str_a, None, TRUE, 0>>,
      <<(<<"A">>), Some(<<"b">>), TRUE, 0>>,
      <<(<<"b">>), Some(<<"B", "a">>), FALSE, MaxClock>>,
      <<(<<"a", "b">>), Some(<<>>), FALSE, MaxClock>> }

TodoSeqs ==
    UNION {{[k \in 1..n |->
               [id |-> k, title |-> f[k][1], description |-> f[k][2],
                completed |-> f[k][3], createdAt |-> f[k][4], updatedAt |-> MaxClock]] :
              f \in [1..n -> ViewAttrs]} : n \in 0..MaxLen}

Filters ==
    {[completed |-> c, search |-> q] :
        c \in {None, Some(TRUE), Some(FALSE)},
        q \in {None, Some(<<>>), Some(<<"a">>), Some(<<"B">>), Some(<<"a", "b">>)}}

TypeOK ==
    /\ backend \in {"drizzle", "pg"}
    /\ issued \subseteq UUIDs
    /\ now \in Times
    /\ \A r \in table : r.id \in UUIDs /\ r.created_at \in Times /\ r.updated_at \in Times
    /\ Cardinality(inflight) <= MaxInflight
    /\ last.outcome \in {"ok", "null", "notfound", "validation", "error"}

Init ==
    /\ backend \in {"drizzle", "pg"}
    /\ table = {}
    /\ issued = {}
    /\ now = 0
    /\ inflight = {}
    /\ last = Idle
    /\ page = FirstPage
    /\ view = NoView
    /\ home = <<>>

(***************************************************************************)
(* The clock advances.                                                     *)
(***************************************************************************)
Tick ==
    /\ last = Idle
    /\ now < MaxClock
    /\ now' = now + 1
    /\ last' = Idle
    /\ UNCHANGED <<backend, table, issued, inflight, page, view, home>>

(***************************************************************************)
(* oRPC router (todoRouter.todos).                                         *)
(***************************************************************************)
RouterList ==
    /\ last = Idle
    /\ \E io \in {"ok", "fail"} :
           /\ \/ /\ io = "ok"
                 /\ \E s \in getAll(backend, table) :
                       last' = [Response("router.list", None, NoPayload, "ok", io)
                                   EXCEPT !.list = s]
              \/ /\ io = "fail"
                 /\ last' = Response("router.list", None, NoPayload, "error", io)
           /\ UNCHANGED <<backend, table, issued, now, inflight, page, view, home>>

RouterGetById ==
    /\ last = Idle
    /\ \E i \in UUIDs, io \in {"ok", "fail"} :
           /\ last' = ProcedureResult("router.getById", Some(i), NoPayload, io,
                                      getById(backend, table, i, io))
           /\ UNCHANGED <<backend, table, issued, now, inflight, page, view, home>>

\* the store call of a create, once the payload is parsed
StoreCreate(op, p, input, io) ==
    /\ Cardinality(table) < MaxRows
    /\ \E fresh \in randomUUID(issued) :
          LET res == create(backend, table, input, fresh, now, io)
          IN  /\ table' = res.rows
              /\ issued' = IF res.kind = "ok" THEN issued \cup {Get(res.todo).id}
                                              ELSE issued
              /\ last' = [(IF op = "router.create"
                            THEN ProcedureResult(op, None, input, io, res)
                            ELSE RouteResult(op, None, input, io, res))
                              EXCEPT !.extra = ~NoExtra(p)]

RouterCreate ==
    /\ last = Idle
    /\ \E p \in CreatePayloads, io \in {"ok", "fail"} :
           LET v == CreateTodoSchema(p)
           IN  /\ IF v.ok
                  THEN StoreCreate("router.create", p, v.data, io)
                  ELSE /\ io = "ok"
                       /\ last' = Rejected("router.create", None, "validation", v.fields)
                       /\ UNCHANGED <<table, issued>>
               /\ UNCHANGED <<backend, now, inflight, page, view, home>>

RouterUpdate ==
    /\ last = Idle
    /\ \E i \in UUIDs, p \in UpdatePayloads, io \in {"ok", "fail"} :
           LET v == UpdateTodoSchema(p)
               res == update(backend, table, i, v.data, now, io)
           IN  /\ IF v.ok
                  THEN /\ table' = res.rows
                       /\ last' = [ProcedureResult("router.update", Some(i), v.data, io, res)
                                      EXCEPT !.extra = ~NoExtra(p)]
                  ELSE /\ io = "ok"
                       /\ last' = Rejected("router.update", Some(i), "validation", v.fields)
                       /\ UNCHANGED table
               /\ UNCHANGED <<backend, issued, now, inflight, page, view, home>>

\* todos.create and todos.update called with payloads that pass their schema
RouterCreateFrom(payloads) ==
    /\ last = Idle
    /\ \E p \in payloads, io \in {"ok", "fail"} :
           LET v == CreateTodoSchema(p)
           IN  /\ v.ok
               /\ StoreCreate("router.create", p, v.data, io)
               /\ UNCHANGED <<backend, now, inflight, page, view, home>>

RouterUpdateFrom(payloads) ==
    /\ last = Idle
    /\ \E i \in UUIDs, p \in payloads, io \in {"ok", "fail"} :
           LET v == UpdateTodoSchema(p)
               res == update(backend, table, i, v.data, now, io)
           IN  /\ v.ok
               /\ table' = res.rows
               /\ last' = ProcedureResult("router.update", Some(i), v.data, io, res)
               /\ UNCHANGED <<backend, issued, now, inflight, page, view, home>>

\* with the payloads that differ in their description
RouterCreateDescription == RouterCreateFrom(DescriptionCreatePayloads)
RouterUpdateDescription == RouterUpdateFrom(DescriptionUpdatePayloads)

\* with the payloads that differ in the length of their title
RouterCreateTitle == RouterCreateFrom(TitleCreatePayloads)
RouterUpdateTitle == RouterUpdateFrom(TitleUpdatePayloads)

RouterDelete ==
    /\ last = Idle
    /\ \E i \in UUIDs, io \in {"ok", "fail"} :
           LET res == delete(table, i, io)
           IN  /\ table' = res.rows
               /\ last' = IF res.kind = "error"
                          THEN Response("router.delete", Some(i), NoPayload, "error", io)
                          ELSE [Response("router.delete", Some(i), NoPayload, "ok", io)
                                   EXCEPT !.success = Some(res.removed)]
               /\ UNCHANGED <<backend, issued, now, inflight, page, view, home>>

(***************************************************************************)
(* Suspended handlers.  A handler that has parsed its input and awaits    *)
(* the store call that writes is an entry of inflight: who called, the    *)
(* procedure, the id and the input the store call will get.               *)
(***************************************************************************)
Pending(c, op, i, data) ==
    [caller |-> c, op |-> op, id |-> i, data |-> data, raced |-> {}]

\* the next caller, while fewer than MaxInflight handlers are suspended
FreeCaller(pend) ==
    {c \in 1..MaxInflight :
        /\ \A f \in pend : f.caller # c
        /\ \A d \in 1..(c - 1) : \E f \in pend : f.caller = d}

\* the fields a store call has written
Written(res, data) == IF res.kind = "ok" THEN Given(data) \cap Known ELSE {}

\* the suspended handlers on record i learn that fields of it were written
Race(pend, i, fields) ==
    {[f EXCEPT !.raced = IF f.id = i THEN @ \cup fields ELSE @] : f \in pend}

\* a store call that leaves out the fields another handler wrote meanwhile
StoreInputUnlessRaced(f) ==
    [title |-> IF "title" \in f.raced THEN None ELSE f.data.title,
     description |-> IF "description" \in f.raced THEN None ELSE f.data.description,
     completed |-> IF "completed" \in f.raced THEN None ELSE f.data.completed,
     id |-> f.data.id, createdAt |-> f.data.createdAt]

\* the input a suspended handler passes to its store call: the parsed input
StoreInput(f) == f.data

\* a toggle that writes the flag it has read
ToggleInputSame(completed) == Payload(None, None, Some(completed), None, None)

\* the partial input of toggle: { completed: !todo.completed }
ToggleInput(completed) == Payload(None, None, Some(~completed), None, None)

\* toggle: const todo = await todoStore.getById(input.id); if (!todo) return
\* null; return await todoStore.update(input.id, { completed: !todo.completed })
RouterToggle ==
    /\ last = Idle
    /\ \E i \in UUIDs, io1 \in {"ok", "fail"}, io2 \in {"ok", "fail"} :
           LET todo == getById(backend, table, i, io1)
               input == ToggleInput(Get(todo.todo).completed)
               res == update(backend, table, i, input, now, io2)
           IN  /\ IF todo.kind # "ok"
                  THEN /\ io2 = "ok"
                       /\ table' = table
                       /\ last' = ProcedureResult("router.toggle", Some(i), NoPayload,
                                                  io1, todo)
                  ELSE /\ table' = res.rows
                       /\ last' = ProcedureResult("router.toggle", Some(i), input, io2, res)
               /\ UNCHANGED <<backend, issued, now, inflight, page, view, home>>

\* The two store calls of toggle as separate steps, for the behaviours in
\* which other handlers run between them.
RouterToggleGetById ==
    /\ last = Idle
    /\ \E i \in UUIDs, io \in {"ok", "fail"} :
           LET res == getById(backend, table, i, io)
           IN  /\ IF res.kind = "ok"
                  THEN /\ \E c \in FreeCaller(inflight) :
                              inflight' = inflight \cup
                                  {Pending(c, "router.toggle", Some(i),
                                           ToggleInput(Get(res.todo).completed))}
                       /\ last' = Idle
                  ELSE /\ inflight' = inflight
                       /\ last' = ProcedureResult("router.toggle", Some(i), NoPayload, io, res)
               /\ UNCHANGED <<backend, table, issued, now, page, view, home>>

RouterToggleUpdate ==
    /\ last = Idle
    /\ \E f \in inflight, io \in {"ok", "fail"} :
           LET res == update(backend, table, Get(f.id), StoreInput(f), now, io)
           IN  /\ f.op = "router.toggle"
               /\ inflight' = Race(inflight \ {f}, f.id, Written(res, f.data))
               /\ table' = res.rows
               /\ last' = [ProcedureResult("router.toggle", f.id, f.data, io, res)
                              EXCEPT !.raced = f.raced]
               /\ UNCHANGED <<backend, issued, now, page, view, home>>

(***************************************************************************)
(* create and update as the two steps of their procedures: the parse of   *)
(* the input schema, and the handler's store call, which is one SQL       *)
(* statement.  Other handlers run between the two steps.                  *)
(***************************************************************************)
RouterCreateParse ==
    /\ last = Idle
    /\ \E p \in ConcurrentCreatePayloads :
           LET v == CreateTodoSchema(p)
           IN  /\ IF v.ok
                  THEN /\ \E c \in FreeCaller(inflight) :
                              inflight' = inflight \cup
                                  {Pending(c, "router.create", None, v.data)}
                       /\ last' = Idle
                  ELSE /\ inflight' = inflight
                       /\ last' = Rejected("router.create", None, "validation", v.fields)
               /\ UNCHANGED <<backend, table, issued, now, page, view, home>>

RouterCreateStore ==
    /\ last = Idle
    /\ \E f \in inflight, io \in {"ok", "fail"} :
           /\ f.op = "router.create"
           /\ \E fresh \in randomUUID(issued) :
                  LET res == create(backend, table, StoreInput(f), fresh, now, io)
                  IN  /\ table' = res.rows
                      /\ issued' = IF res.kind = "ok"
                                    THEN issued \cup {Get(res.todo).id} ELSE issued
                      /\ last' = ProcedureResult("router.create", None, f.data, io, res)
           /\ inflight' = inflight \ {f}
           /\ UNCHANGED <<backend, now, page, view, home>>

RouterUpdateParse ==
    /\ last = Idle
    /\ \E i \in UUIDs, p \in ConcurrentUpdatePayloads :
           LET v == UpdateTodoSchema(p)
           IN  /\ IF v.ok
                  THEN /\ \E c \in FreeCaller(inflight) :
                              inflight' = inflight \cup
                                  {Pending(c, "router.update", Some(i), v.data)}
                       /\ last' = Idle
                  ELSE /\ inflight' = inflight
                       /\ last' = Rejected("router.update", Some(i), "validation", v.fields)
               /\ UNCHANGED <<backend, table, issued, now, page, view, home>>

RouterUpdateStore ==
    /\ last = Idle
    /\ \E f \in inflight, io \in {"ok", "fail"} :
           LET res == update(backend, table, Get(f.id), StoreInput(f), now, io)
           IN  /\ f.op = "router.update"
               /\ inflight' = Race(inflight \ {f}, f.id, Written(res, f.data))
               /\ table' = res.rows
               /\ last' = [ProcedureResult("router.update", f.id, f.data, io, res)
                              EXCEPT !.raced = f.raced]
               /\ UNCHANGED <<backend, issued, now, page, view, home>>

(***************************************************************************)
(* REST route handlers (/api/todos and /api/todos/[id]).  Each wraps its  *)
(* body in try/catch and answers a throw with its generic error body.     *)
(***************************************************************************)
RestGetTodos ==
    /\ last = Idle
    /\ \E io \in {"ok", "fail"} :
           /\ \/ /\ io = "ok"
                 /\ \E s \in getAll(backend, table) :
                       last' = [Response("GET /api/todos", None, NoPayload, "ok", io)
                                   EXCEPT !.list = s]
              \/ /\ io = "fail"
                 /\ last' = Response("GET /api/todos", None, NoPayload, "error", io)
           /\ UNCHANGED <<backend, table, issued, now, inflight, page, view, home>>

RestPostTodo ==
    /\ last = Idle
    /\ \E p \in CreatePayloads, io \in {"ok", "fail"} :
           LET v == CreateTodoSchema(p)
           IN  /\ IF v.ok
                  THEN StoreCreate("POST /api/todos", p, v.data, io)
                  ELSE /\ io = "ok"
                       /\ last' = Rejected("POST /api/todos", None, "error", v.fields)
                       /\ UNCHANGED <<table, issued>>
               /\ UNCHANGED <<backend, now, inflight, page, view, home>>

RestGetTodo ==
    /\ last = Idle
    /\ \E i \in UUIDs, io \in {"ok", "fail"} :
           /\ last' = RouteResult("GET /api/todos/[id]", Some(i), NoPayload, io,
                                  getById(backend, table, i, io))
           /\ UNCHANGED <<backend, table, issued, now, inflight, page, view, home>>

RestPutTodo ==
    /\ last = Idle
    /\ \E i \in UUIDs, p \in UpdatePayloads, io \in {"ok", "fail"} :
           LET v == UpdateTodoSchema(p)
               res == update(backend, table, i, v.data, now, io)
           IN  /\ IF v.ok
                  THEN /\ table' = res.rows
                       /\ last' = [RouteResult("PUT /api/todos/[id]", Some(i), v.data, io, res)
                                      EXCEPT !.extra = ~NoExtra(p)]
                  ELSE /\ io = "ok"
                       /\ last' = Rejected("PUT /api/todos/[id]", Some(i), "error", v.fields)
                       /\ UNCHANGED table
               /\ UNCHANGED <<backend, issued, now, inflight, page, view, home>>

\* if (!success) 404 { error: 'Todo not found' } else { success: true }
RestDeleteTodo ==
    /\ last = Idle
    /\ \E i \in UUIDs, io \in {"ok", "fail"} :
           LET res == delete(table, i, io)
           IN  /\ table' = res.rows
               /\ last' = CASE res.kind = "error" ->
                                 Response("DELETE /api/todos/[id]", Some(i), NoPayload, "error", io)
                            [] res.kind = "ok" /\ ~res.removed ->
                                 Response("DELETE /api/todos/[id]", Some(i), NoPayload, "notfound", io)
                            [] OTHER ->
                                 [Response("DELETE /api/todos/[id]", Some(i), NoPayload, "ok", io)
                                     EXCEPT !.success = Some(TRUE)]
               /\ UNCHANGED <<backend, issued, now, inflight, page, view, home>>

(***************************************************************************)
(* Server-side fetch services: a throw is logged and answered with the    *)
(* empty list or null.                                                     *)
(***************************************************************************)
\* try { return await todoStore.getAll() } catch { return [] }
fetchTodosServer ==
    /\ last = Idle
    /\ \E io \in {"ok", "fail"} :
           /\ \/ /\ io = "ok"
                 /\ \E s \in getAll(backend, table) :
                       last' = [Response("fetchTodosServer", None, NoPayload, "ok", io)
                                   EXCEPT !.list = s]
              \/ /\ io = "fail"
                 /\ last' = Response("fetchTodosServer", None, NoPayload, "ok", io)
           /\ UNCHANGED <<backend, table, issued, now, inflight, page, view, home>>

\* try { return await todoStore.getById(id) } catch { return null }
fetchTodoByIdServer ==
    /\ last = Idle
    /\ \E i \in UUIDs, io \in {"ok", "fail"} :
           LET res == getById(backend, table, i, io)
           IN  /\ last' = [Response("fetchTodoByIdServer", Some(i), NoPayload,
                                    IF res.kind = "ok" THEN "ok" ELSE "null", io)
                              EXCEPT !.todo = res.todo]
               /\ UNCHANGED <<backend, table, issued, now, inflight, page, view, home>>

\* fetchTodos: POST /todos/list over HTTP; !response.ok throws, and the
\* catch returns []
fetchTodos ==
    /\ last = Idle
    /\ \E io \in {"ok", "fail"} :
           /\ \/ /\ io = "ok"
                 /\ \E s \in getAll(backend, table) :
                       last' = [Response("fetchTodos", None, NoPayload, "ok", io)
                                   EXCEPT !.list = s]
              \/ /\ io = "fail"
                 /\ last' = Response("fetchTodos", None, NoPayload, "ok", io)
           /\ UNCHANGED <<backend, table, issued, now, inflight, page, view, home>>

(***************************************************************************)
(* Handlers of the todo page.  Each starts a transition, adds its         *)
(* optimistic action and awaits the call of its route; the route answers; *)
(* then the handler goes on: router.refresh() after an ok answer, the      *)
(* catch after any other, and its transition is over.  The form stays     *)
(* enabled while a transition is pending; the list and its items do not.  *)
(***************************************************************************)
handleCreateTodo ==
    /\ Cardinality(issued) + Cardinality(page.calls) < MaxTodos
    /\ Len(page.optimistic) < MaxInflight
    /\ \E data \in PageCreateInputs, c \in FreeCaller(page.calls) :
           page' = [page EXCEPT
                       !.optimistic = Append(@, OptimisticAction("add",
                                          Some(OptimisticTodo(data, now)), None, NoPayload)),
                       !.calls = @ \cup {Call(c, "create", None, data)},
                       !.done = None]
    /\ UNCHANGED <<backend, table, issued, now, inflight, last, view, home>>

handleUpdateTodo ==
    /\ page.calls = {}
    /\ \E k \in DOMAIN optimisticTodos(page), data \in PageUpdateInputs,
           c \in FreeCaller(page.calls) :
           LET i == optimisticTodos(page)[k].id
           IN  page' = [page EXCEPT
                           !.optimistic = Append(@, OptimisticAction("update",
                                              None, Some(i), data)),
                           !.calls = @ \cup {Call(c, "update", Some(i), data)},
                           !.done = None]
    /\ UNCHANGED <<backend, table, issued, now, inflight, last, view, home>>

handleDeleteTodo ==
    /\ page.calls = {}
    /\ \E k \in DOMAIN optimisticTodos(page), c \in FreeCaller(page.calls) :
           LET i == optimisticTodos(page)[k].id
           IN  page' = [page EXCEPT
                           !.optimistic = Append(@, OptimisticAction("delete",
                                              None, Some(i), NoPayload)),
                           !.calls = @ \cup {Call(c, "delete", Some(i), NoPayload)},
                           !.done = None]
    /\ UNCHANGED <<backend, table, issued, now, inflight, last, view, home>>

\* the answer of a route reaches the handler that called it
Answered(call, answer) ==
    [page EXCEPT !.calls = (@ \ {call}) \cup {[call EXCEPT !.answer = answer]}]

\* POST /api/todos/create: CreateTodoSchema.parse(body), then the create
\* procedure of the router; 500 when either throws
PostTodosCreate ==
    /\ \E call \in page.calls, io \in {"ok", "fail"} :
           LET v == CreateTodoSchema(call.data)
           IN  /\ call.op = "create"
               /\ call.answer = "none"
               /\ IF v.ok
                  THEN \E fresh \in randomUUID(issued) :
                          LET res == create(backend, table, v.data, fresh, now, io)
                          IN  /\ table' = res.rows
                              /\ issued' = IF res.kind = "ok"
                                            THEN issued \cup {Get(res.todo).id}
                                            ELSE issued
                              /\ page' = Answered(call, IF res.kind = "ok" THEN "ok"
                                                                          ELSE "error")
                  ELSE /\ io = "ok"
                       /\ page' = Answered(call, "error")
                       /\ UNCHANGED <<table, issued>>
    /\ UNCHANGED <<backend, now, inflight, last, view, home>>

\* POST /api/todos/update: UpdateRequestSchema.parse(body), then the update
\* procedure; null for a missing id is answered as it is, with 200
PostTodosUpdate ==
    /\ \E call \in page.calls, io \in {"ok", "fail"} :
           LET v == UpdateTodoSchema(call.data)
               res == update(backend, table, Get(call.id), v.data, now, io)
           IN  /\ call.op = "update"
               /\ call.answer = "none"
               /\ IF v.ok
                  THEN /\ table' = res.rows
                       /\ page' = Answered(call, IF res.kind = "error" THEN "error"
                                                                        ELSE "ok")
                  ELSE /\ io = "ok"
                       /\ page' = Answered(call, "error")
                       /\ UNCHANGED table
    /\ UNCHANGED <<backend, issued, now, inflight, last, view, home>>

\* POST /api/todos/delete: the delete procedure; { success } with 200
PostTodosDelete ==
    /\ \E call \in page.calls, io \in {"ok", "fail"} :
           LET res == delete(table, Get(call.id), io)
           IN  /\ call.op = "delete"
               /\ call.answer = "none"
               /\ table' = res.rows
               /\ page' = Answered(call, IF res.kind = "error" THEN "error" ELSE "ok")
    /\ UNCHANGED <<backend, issued, now, inflight, last, view, home>>

(***************************************************************************)
(* Batches (useTodoActions).  A batch starts every call of its argument   *)
(* before it awaits any; batch is "pending" until Promise.all settles,    *)
(* "rejected" from the first call that failed, "resolved" when all have   *)
(* succeeded.  snapshot is the store as the batch found it.  A behaviour   *)
(* runs one batch, on any store the initial states offer.                  *)
(***************************************************************************)
BatchIdle == page.batch = "none" /\ page.calls = {}

batchUpdateTodos ==
    /\ BatchIdle
    /\ \E updates \in BatchUpdates :
          page' = [page EXCEPT
                      !.calls = {Call(k, "update", Some(updates[k].id), updates[k].data) :
                                    k \in DOMAIN updates},
                      !.batch = "pending",
                      !.snapshot = table]
    /\ UNCHANGED <<backend, table, issued, now, inflight, last, view, home>>

batchDeleteTodos ==
    /\ BatchIdle
    /\ \E ids \in BatchDeletes :
          page' = [page EXCEPT
                      !.calls = {Call(k, "delete", Some(ids[k]), NoPayload) :
                                    k \in DOMAIN ids},
                      !.batch = "pending",
                      !.snapshot = table]
    /\ UNCHANGED <<backend, table, issued, now, inflight, last, view, home>>

\* await Promise.all(promises): rejects with the first call that threw, the
\* other calls go on; resolves when every call has succeeded
PromiseAll ==
    /\ page.batch = "pending"
    /\ IF \E call \in page.calls : call.answer = "error"
       THEN /\ page' = [page EXCEPT !.batch = "rejected", !.refresh = TRUE]
            /\ table' = afterCatch(table, page.snapshot)
       ELSE /\ \A call \in page.calls : call.answer = "ok"
            /\ page' = [page EXCEPT !.batch = "resolved", !.refresh = TRUE]
            /\ table' = table
    /\ UNCHANGED <<backend, issued, now, inflight, last, view, home>>

\* the handler after its await: router.refresh() or the catch; the
\* transition ends
TransitionEnds ==
    /\ \E call \in page.calls :
           /\ call.answer # "none"
           /\ page' = [page EXCEPT
                           !.calls = @ \ {call},
                           !.refresh = @ \/ call.answer = "ok",
                           !.optimistic = revertOptimistic(@, page.calls \ {call},
                                                           call.answer),
                           !.done = Some([op |-> call.op, answer |-> call.answer])]
    /\ UNCHANGED <<backend, table, issued, now, inflight, last, view, home>>

\* TodoPageServer renders again after router.refresh(): fetchTodos() gives
\* the list of the store, the cached answer, or [] when the fetch failed
TodoPageServer ==
    /\ page.refresh
    /\ \/ \E s \in getAll(backend, table) :
              page' = [page EXCEPT !.initialTodos = s, !.cache = s, !.refresh = FALSE]
       \/ page' = [page EXCEPT !.initialTodos = page.cache, !.refresh = FALSE]
       \/ page' = [page EXCEPT !.initialTodos = <<>>, !.refresh = FALSE]
    /\ UNCHANGED <<backend, table, issued, now, inflight, last, view, home>>

(***************************************************************************)
(* Applications of the derived-view helpers.                               *)
(***************************************************************************)
FilterTodos ==
    /\ view.fn = "none"
    /\ \E todos \in {view.todos}, filter \in Filters :
           view' = [NoView EXCEPT !.fn = "filterTodos", !.todos = todos,
                                  !.filter = filter,
                                  !.out = filterTodos(todos, filter)]
    /\ UNCHANGED <<backend, table, issued, now, inflight, last, page, home>>

\* filteredTodos of TodoPageClient
FilteredTodos ==
    /\ view.fn = "none"
    /\ \E todos \in {view.todos}, filter \in Filters :
           view' = [NoView EXCEPT !.fn = "filteredTodos", !.todos = todos,
                                  !.filter = filter,
                                  !.out = filterTodos(todos, filter)]
    /\ UNCHANGED <<backend, table, issued, now, inflight, last, page, home>>

SortTodos ==
    /\ view.fn = "none"
    /\ \E todos \in {view.todos},
           sortBy \in {"createdAt", "updatedAt", "title", "completed"},
           order \in {"asc", "desc"} :
           view' = [NoView EXCEPT !.fn = "sortTodos",
                                  !.todos = todosAfterSort(todos, sortBy, order),
                                  !.sortBy = sortBy, !.order = order,
                                  !.out = sortTodos(todos, sortBy, order)]
    /\ UNCHANGED <<backend, table, issued, now, inflight, last, page, home>>

GroupTodosByStatus ==
    /\ view.fn = "none"
    /\ \E todos \in {view.todos} :
           view' = [NoView EXCEPT
                       !.fn = "groupTodosByStatus", !.todos = todos,
                       !.out = groupTodosByStatus(todos).completed,
                       !.rest = groupTodosByStatus(todos).pending]
    /\ UNCHANGED <<backend, table, issued, now, inflight, last, page, home>>

CalculateTodoStats ==
    /\ view.fn = "none"
    /\ \E todos \in {view.todos} :
           view' = [NoView EXCEPT !.fn = "calculateTodoStats", !.todos = todos,
                                  !.stats = calculateTodoStats(todos)]
    /\ UNCHANGED <<backend, table, issued, now, inflight, last, page, home>>

GetTodoStats ==
    /\ view.fn = "none"
    /\ \E todos \in {view.todos} :
           view' = [NoView EXCEPT !.fn = "getTodoStats", !.todos = todos,
                                  !.stats = calculateTodoStats(todos)]
    /\ UNCHANGED <<backend, table, issued, now, inflight, last, page, home>>

(***************************************************************************)
(* Applications of the validators to a create input.                       *)
(***************************************************************************)
ValidateTodoInput ==
    /\ view.fn = "none"
    /\ LET r == validateTodoInput(view.input)
       IN  view' = [view EXCEPT !.fn = "validateTodoInput", !.isValid = r.isValid,
                                !.errors = r.errors]
    /\ UNCHANGED <<backend, table, issued, now, inflight, last, page, home>>

\* TodoForm.handleSubmit: the two fields of the form hold strings
TodoFormHandleSubmit ==
    /\ view.fn = "none"
    /\ IsSome(view.input.title)
    /\ IsSome(view.input.description)
    /\ LET title == Get(view.input.title)
           description == Get(view.input.description)
           errs == newErrors(title, description)
       IN  view' = [view EXCEPT
                       !.fn = "TodoForm.handleSubmit",
                       !.newErrors = errs,
                       !.isValid = (errs = NoErrors),
                       !.passed = IF errs = NoErrors
                                  THEN Some(submitted(title, description))
                                  ELSE None]
    /\ UNCHANGED <<backend, table, issued, now, inflight, last, page, home>>

\* CreateTodoSchema.parse on the body of a create request
CreateTodoSchemaParse ==
    /\ view.fn = "none"
    /\ LET v == CreateTodoSchema(Payload(view.input.title, view.input.description,
                                         None, None, None))
       IN  view' = [view EXCEPT
                       !.fn = "CreateTodoSchema.parse",
                       !.isValid = v.ok,
                       !.issues = v.fields,
                       !.passed = IF v.ok THEN Some(v.data) ELSE None]
    /\ UNCHANGED <<backend, table, issued, now, inflight, last, page, home>>

(***************************************************************************)
(* The client-fetching home page (page.tsx).  Its list holds what the     *)
(* responses carried: an element is a Todo or, for a body of null, None.  *)
(* A handler changes the list when response.ok, that is unless the        *)
(* procedure threw.                                                        *)
(***************************************************************************)
\* prev.map(todo => todo.id === id ? updatedTodo : todo)
replaceTodo(prev, i, updatedTodo) ==
    [k \in DOMAIN prev |-> IF Get(prev[k]).id = i THEN updatedTodo ELSE prev[k]]

\* a map that leaves the element alone when the response carried no Todo
replaceTodoIfAny(prev, i, updatedTodo) ==
    IF IsSome(updatedTodo) THEN replaceTodo(prev, i, updatedTodo) ELSE prev

\* the elements of the list are Todos: the callbacks read todo.id of each
Rendered == \A k \in DOMAIN home : IsSome(home[k])

HomeFetchTodos ==
    /\ last = Idle
    /\ \E io \in {"ok", "fail"} :
          IF io = "ok"
          THEN \E s \in getAll(backend, table) : home' = [k \in DOMAIN s |-> Some(s[k])]
          ELSE home' = home
    /\ UNCHANGED <<backend, table, issued, now, inflight, last, page, view>>

HomeCreateTodo ==
    /\ last = Idle
    /\ Cardinality(table) < MaxRows
    /\ \E p \in PageCreateInputs, io \in {"ok", "fail"}, fresh \in randomUUID(issued) :
          LET v == CreateTodoSchema(p)
              res == create(backend, table, v.data, fresh, now, io)
          IN  /\ v.ok
              /\ table' = res.rows
              /\ issued' = IF res.kind = "ok" THEN issued \cup {fresh} ELSE issued
              /\ home' = IF res.kind = "ok" THEN <<res.todo>> \o home ELSE home
    /\ UNCHANGED <<backend, now, inflight, last, page, view>>

\* the POST to todos/update and the setTodos that follows it
HomeUpdate(i, p, io) ==
    LET v == UpdateTodoSchema(p)
        res == update(backend, table, i, v.data, now, io)
    IN  /\ v.ok
        /\ table' = res.rows
        /\ home' = IF res.kind = "error" THEN home ELSE replaceTodo(home, i, res.todo)

HomeUpdateTodo ==
    /\ last = Idle
    /\ Rendered
    /\ \E k \in DOMAIN home, p \in PageUpdateInputs, io \in {"ok", "fail"} :
          HomeUpdate(Get(home[k]).id, p, io)
    /\ UNCHANGED <<backend, issued, now, inflight, last, page, view>>

HomeToggleTodo ==
    /\ last = Idle
    /\ Rendered
    /\ \E k \in DOMAIN home, io \in {"ok", "fail"} :
          HomeUpdate(Get(home[k]).id,
                     Payload(None, None, Some(~Get(home[k]).completed), None, None), io)
    /\ UNCHANGED <<backend, issued, now, inflight, last, page, view>>

HomeDeleteTodo ==
    /\ last = Idle
    /\ Rendered
    /\ \E k \in DOMAIN home, io \in {"ok", "fail"} :
          LET i == Get(home[k]).id
              res == delete(table, i, io)
          IN  /\ table' = res.rows
              /\ home' = IF res.kind = "error" THEN home
                         ELSE Pick(home, {j \in DOMAIN home : Get(home[j]).id # i})
    /\ UNCHANGED <<backend, issued, now, inflight, last, page, view>>

\* the caller takes the response of the handler
Return ==
    /\ last # Idle
    /\ last' = Idle
    /\ UNCHANGED <<backend, table, issued, now, inflight, page, view, home>>

Next ==
    \/ Tick
    \/ Return
    \/ RouterList
    \/ RouterGetById
    \/ RouterCreate
    \/ RouterUpdate
    \/ RouterDelete
    \/ RouterToggle
    \/ RestGetTodos
    \/ RestPostTodo
    \/ RestGetTodo
    \/ RestPutTodo
    \/ RestDeleteTodo
    \/ fetchTodosServer
    \/ fetchTodoByIdServer
    \/ fetchTodos

Spec == Init /\ [][Next]_vars

\* the same handlers with toggle split at its await
NextInterleaved ==
    \/ Next
    \/ RouterToggleGetById
    \/ RouterToggleUpdate

SpecInterleaved == Init /\ [][NextInterleaved]_vars

(***************************************************************************)
(* The read side on a store that already holds records: the table is any  *)
(* set of rows that creates and toggles at earlier clock readings leave   *)
(* behind, and the four handlers that list it run against it.             *)
(***************************************************************************)
\* completed, created_at and updated_at of a stored row
StoredAttrs == {a \in BOOLEAN \X Times \X Times : a[2] <= a[3]}

\* one row for each id of a set of ids
StoredTables ==
    UNION {{{Row(i, Str_a, None, f[i][1], f[i][2], f[i][3]) : i \in S} :
               f \in [S -> StoredAttrs]} : S \in SUBSET UUIDs}

InitList ==
    /\ backend \in {"drizzle", "pg"}
    /\ table \in StoredTables
    /\ issued = Ids(table)
    /\ now = MaxClock
    /\ inflight = {}
    /\ last = Idle
    /\ page = FirstPage
    /\ view = NoView
    /\ home = <<>>

NextList ==
    \/ RouterList
    \/ RestGetTodos
    \/ fetchTodosServer
    \/ fetchTodos
    \/ Return

SpecList == InitList /\ [][NextList]_vars

(***************************************************************************)
(* Concurrent callers of the router on a store that holds records which   *)
(* were inserted together, as the sample rows of init.sql are.            *)
(***************************************************************************)
SampleTables ==
    {rows \in StoredTables : \A r \in rows : r.created_at = 0 /\ r.updated_at = 0}

InitConcurrent ==
    /\ backend \in {"drizzle", "pg"}
    /\ table \in SampleTables
    /\ issued = Ids(table)
    /\ now = 0
    /\ inflight = {}
    /\ last = Idle
    /\ page = FirstPage
    /\ view = NoView
    /\ home = <<>>

NextConcurrent ==
    \/ Return
    \/ RouterGetById
    \/ RouterDelete
    \/ RouterCreateParse
    \/ RouterCreateStore
    \/ RouterUpdateParse
    \/ RouterUpdateStore
    \/ RouterToggleGetById
    \/ RouterToggleUpdate

SpecConcurrent == InitConcurrent /\ [][NextConcurrent]_vars

(***************************************************************************)
(* The todo page on its own: every change of the store comes from it.     *)
(***************************************************************************)
NextPage ==
    \/ handleCreateTodo
    \/ handleUpdateTodo
    \/ handleDeleteTodo
    \/ PostTodosCreate
    \/ PostTodosUpdate
    \/ PostTodosDelete
    \/ TransitionEnds
    \/ TodoPageServer

SpecPage == Init /\ [][NextPage]_vars

(***************************************************************************)
(* The derived-view helpers applied to every Todo sequence of the bounds. *)
(***************************************************************************)
InitViews ==
    /\ backend \in {"drizzle", "pg"}
    /\ table \in SampleTables
    /\ issued = Ids(table)
    /\ now = 0
    /\ inflight = {}
    /\ last = Idle
    /\ page = FirstPage
    /\ view \in {[NoView EXCEPT !.todos = todos] : todos \in TodoSeqs}
    /\ home = <<>>

NextViews ==
    \/ FilterTodos
    \/ FilteredTodos
    \/ SortTodos
    \/ GroupTodosByStatus
    \/ CalculateTodoStats
    \/ GetTodoStats

SpecViews == InitViews /\ [][NextViews]_vars

(***************************************************************************)
(* The home page and another client that deletes through the router.      *)
(***************************************************************************)
NextHome ==
    \/ HomeFetchTodos
    \/ HomeCreateTodo
    \/ HomeUpdateTodo
    \/ HomeToggleTodo
    \/ HomeDeleteTodo
    \/ RouterDelete
    \/ Tick
    \/ Return

SpecHome == Init /\ [][NextHome]_vars

(***************************************************************************)
(* Batches of updates and of deletes on a store that holds records.       *)
(***************************************************************************)
NextBatch ==
    \/ batchUpdateTodos
    \/ batchDeleteTodos
    \/ PostTodosUpdate
    \/ PostTodosDelete
    \/ PromiseAll

SpecBatch == InitConcurrent /\ [][NextBatch]_vars

(***************************************************************************)
(* Callers that toggle at the same time: every write is that of a toggle. *)
(***************************************************************************)
NextToggles ==
    \/ RouterToggleGetById
    \/ RouterToggleUpdate
    \/ Return

SpecToggles == InitConcurrent /\ [][NextToggles]_vars

(***************************************************************************)
(* Records written with and without a description, and read back.         *)
(***************************************************************************)
NextDescription ==
    \/ RouterCreateDescription
    \/ RouterUpdateDescription
    \/ RouterGetById
    \/ RouterDelete
    \/ Tick
    \/ Return

SpecDescription == Init /\ [][NextDescription]_vars

(***************************************************************************)
(* Records written with titles of every length the schemas accept.        *)
(***************************************************************************)
NextTitles ==
    \/ RouterCreateTitle
    \/ RouterUpdateTitle
    \/ RouterGetById
    \/ RouterDelete
    \/ Tick
    \/ Return

SpecTitles == Init /\ [][NextTitles]_vars

(***************************************************************************)
(* The validators applied to create inputs around their limits.           *)
(***************************************************************************)
InitValidation ==
    /\ backend \in {"drizzle", "pg"}
    /\ table = {}
    /\ issued = {}
    /\ now = 0
    /\ inflight = {}
    /\ last = Idle
    /\ page = FirstPage
    /\ view \in {[NoView EXCEPT !.input = input] : input \in FormInputs}
    /\ home = <<>>

NextValidation ==
    \/ ValidateTodoInput
    \/ TodoFormHandleSubmit
    \/ CreateTodoSchemaParse

SpecValidation == InitValidation /\ [][NextValidation]_vars

(***************************************************************************)
(* Vocabulary of the properties.                                           *)
(***************************************************************************)
CreateOps == {"router.create", "POST /api/todos"}
UpdateOps == {"router.update", "PUT /api/todos/[id]"}
ToggleOps == {"router.toggle"}
DeleteOps == {"router.delete", "DELETE /api/todos/[id]"}
GetOps == {"router.getById", "GET /api/todos/[id]", "fetchTodoByIdServer"}
ListOps == {"router.list", "GET /api/todos", "fetchTodosServer", "fetchTodos"}
ServiceOps == {"fetchTodosServer", "fetchTodoByIdServer", "fetchTodos"}


\* a handler returned a Todo
Returned(r, ops) == r.op \in ops /\ r.outcome = "ok" /\ IsSome(r.todo)

(***************************************************************************)
(* C1.  As claimed: every create with valid input returns a Todo with     *)
(* completed = false, createdAt = updatedAt and an id that was never      *)
(* issued before, ids of deleted records included.                         *)
(***************************************************************************)
C1_CreateReturnsFreshPendingTodo ==
    [][Returned(last', CreateOps) =>
          /\ Get(last'.todo).completed = FALSE
          /\ Get(last'.todo).createdAt = Get(last'.todo).updatedAt
          /\ Get(last'.todo).id \notin issued]_vars

(***************************************************************************)
(* C1 as amended: every create with valid input returns a Todo with       *)
(* createdAt = updatedAt and an id never issued before; completed is      *)
(* false unless the Drizzle store is deployed and the input carries       *)
(* completed, and then it is the value of the input.                      *)
(***************************************************************************)
C1_CreateReturnsFreshTodo ==
    [][Returned(last', CreateOps) =>
          /\ Get(last'.todo).completed =
                 IF backend = "drizzle" /\ IsSome(last'.data.completed)
                 THEN Get(last'.data.completed) ELSE FALSE
          /\ Get(last'.todo).createdAt = Get(last'.todo).updatedAt
          /\ Get(last'.todo).id \notin issued]_vars

\* a create has returned after an earlier record was created and deleted
C1_Witness ==
    /\ Returned(last, CreateOps)
    /\ \E u \in issued : u # Get(last.todo).id /\ u \notin Ids(table)

(***************************************************************************)
(* C2.  An update of a present record leaves every field among title,     *)
(* description and completed that the partial input does not carry at its *)
(* prior value, and the record it returns is the record the store holds.  *)
(***************************************************************************)
C2_UpdateKeepsAbsentFields ==
    Returned(last, UpdateOps) =>
        /\ IsSome(last.before)
        /\ \A f \in Known \ Given(last.data) :
               Get(last.todo)[f] = Get(last.before)[f]
        /\ last.todo = Before(backend, table, Get(last.id))

\* an update carrying only completed has returned a record with a description
C2_Witness ==
    /\ Returned(last, UpdateOps)
    /\ Given(last.data) = {"completed"}
    /\ Get(last.todo).completed # Get(last.before).completed
    /\ Get(last.todo).description = Some(Str_d)

(***************************************************************************)
(* C3.  As claimed: once a delete has removed a record, the record stays  *)
(* absent: unless storage fails, every later getById, update and toggle   *)
(* that reaches the store with that id reports not found, every later     *)
(* delete of it does not report a removal, and no list returns it.        *)
(***************************************************************************)
C3_DeletedStaysAbsent ==
    [][\A u \in issued \ Ids(table) :
          /\ u \notin Ids(table')
          /\ \A k \in DOMAIN last'.list : last'.list[k].id # u
          /\ (last'.id = Some(u) /\ last'.reached /\ last'.io = "ok") =>
                 /\ last'.op \in GetOps \cup UpdateOps \cup ToggleOps =>
                        last'.outcome \in {"null", "notfound"}
                 /\ last'.op \in DeleteOps => last'.success # Some(TRUE)]_vars

(***************************************************************************)
(* C4.  As claimed: no stored Todo has a title that is empty after        *)
(* trimming whitespace.                                                    *)
(***************************************************************************)
C4_NoBlankTitleStored ==
    \A r \in table : Trim(r.title) # <<>>

(***************************************************************************)
(* C5.  As claimed: a storage failure during any operation reaches the    *)
(* caller as an error, never as a normal result.                           *)
(***************************************************************************)
C5_StorageFailureIsAnError ==
    last.io = "fail" => last.outcome = "error"

(***************************************************************************)
(* C5 as amended: a storage failure during a router procedure or a REST   *)
(* route handler reaches the caller as an error; the server-side fetch    *)
(* services fetchTodosServer, fetchTodoByIdServer and fetchTodos catch it *)
(* and return the empty list, respectively null.                           *)
(***************************************************************************)
C5_StorageFailureIsAnErrorOutsideServices ==
    last.io = "fail" =>
        /\ last.todo = None /\ last.list = <<>> /\ last.success = None
        /\ last.outcome =
               CASE last.op \in ServiceOps \cap ListOps -> "ok"
                 [] last.op \in ServiceOps \cap GetOps -> "null"
                 [] OTHER -> "error"

\* the read of a present record through the router has failed
C5_Witness ==
    /\ last.op = "router.getById"
    /\ last.io = "fail"
    /\ IsSome(last.before)
    /\ last.outcome = "error"

(***************************************************************************)
(* C6.  As claimed: an update with an empty partial input on a present    *)
(* record is accepted and returns the record with id, title, description, *)
(* completed and createdAt as before and updatedAt not less than before.  *)
(***************************************************************************)
C6_EmptyUpdateReadsBack ==
    (/\ last.op \in UpdateOps
     /\ last.reached
     /\ last.io = "ok"
     /\ Given(last.data) = {}
     /\ IsSome(last.before)) =>
        /\ last.outcome = "ok"
        /\ IsSome(last.todo)
        /\ \A f \in {"id", "title", "description", "completed", "createdAt"} :
               Get(last.todo)[f] = Get(last.before)[f]
        /\ Get(last.todo).updatedAt >= Get(last.before).updatedAt

(***************************************************************************)
(* C7.  An update with at least one field and a toggle that succeed set   *)
(* updatedAt of the record to the current time, also when the values      *)
(* written equal the stored ones, and no step decreases the updatedAt of  *)
(* a record.                                                               *)
(***************************************************************************)
C7_MutationRefreshesUpdatedAt ==
    [][/\ \A r \in table : \A q \in table' :
              q.id = r.id => q.updated_at >= r.updated_at
       /\ (Returned(last', UpdateOps \cup ToggleOps) /\ Given(last'.data) # {}) =>
              /\ Get(last'.todo).updatedAt = now
              /\ \E q \in table' : q.id = Get(last'.id) /\ q.updated_at = now]_vars

\* an update that wrote the title the record already had has moved updatedAt
C7_Witness ==
    /\ Returned(last, UpdateOps)
    /\ IsSome(last.data.title)
    /\ Get(last.data.title) = Get(last.before).title
    /\ Get(last.todo).updatedAt > Get(last.before).updatedAt

(***************************************************************************)
(* C8.  Every stored Todo has createdAt <= updatedAt.                      *)
(***************************************************************************)
C8_CreatedNotAfterUpdated ==
    \A r \in table : r.created_at <= r.updated_at

\* a record that was changed after the clock moved on
C8_Witness ==
    \E r \in table : r.created_at < r.updated_at

(***************************************************************************)
(* C9.  No update and no toggle, whatever its payload, changes the id or  *)
(* the createdAt of a record.                                              *)
(***************************************************************************)
C9_IdAndCreatedAtImmutable ==
    [][/\ \A r \in table : \A q \in table' :
              q.id = r.id => q.created_at = r.created_at
       /\ last'.op \in UpdateOps \cup ToggleOps => Ids(table') = Ids(table)
       /\ Returned(last', UpdateOps \cup ToggleOps) =>
              /\ Get(last'.todo).id = Get(last'.id)
              /\ Get(last'.todo).createdAt = Get(last'.before).createdAt]_vars

\* an update whose payload named another id and createdAt has changed a record
C9_Witness ==
    /\ Returned(last, UpdateOps)
    /\ last.extra
    /\ Get(last.todo).completed # Get(last.before).completed
    /\ Get(last.todo).id # 1

(***************************************************************************)
(* C10.  As claimed: unless storage fails, every delete returns           *)
(* success = true when a record with the id was present, and has then     *)
(* removed it, and success = false when none existed, never an error.     *)
(***************************************************************************)
C10_DeleteReportsRemoval ==
    (last.op \in DeleteOps /\ last.io = "ok") =>
        /\ last.outcome = "ok"
        /\ last.success = Some(IsSome(last.before))
        /\ Get(last.id) \notin Ids(table)

(***************************************************************************)
(* C10 as amended: unless storage fails, the delete procedure of the      *)
(* router returns success = true when a record with the id was present,   *)
(* and has then removed it, and success = false when none existed, never  *)
(* an error; the DELETE /api/todos/[id] route returns success = true in   *)
(* the first case and answers a missing id with 404 'Todo not found'.     *)
(***************************************************************************)
C10_DeleteReportsRemovalOr404 ==
    (last.op \in DeleteOps /\ last.io = "ok") =>
        /\ Get(last.id) \notin Ids(table)
        /\ IF last.op = "DELETE /api/todos/[id]" /\ ~IsSome(last.before)
           THEN last.outcome = "notfound" /\ last.success = None
           ELSE last.outcome = "ok" /\ last.success = Some(IsSome(last.before))

\* the router has deleted a record, and has been asked to delete it again
C10_Witness ==
    /\ last.op = "router.delete"
    /\ last.success = Some(FALSE)
    /\ Get(last.id) \in issued

(***************************************************************************)
(* C11.  Unless storage fails, toggle on a present record returns the     *)
(* record with completed negated and title and description unchanged, and *)
(* the store holds what it returned; on an absent id it returns null and  *)
(* leaves the store unchanged.                                             *)
(***************************************************************************)
C11_ToggleNegatesCompleted ==
    [][(last'.op \in ToggleOps /\ last'.io = "ok") =>
          IF Find(table, Get(last'.id)) # {}
          THEN /\ Returned(last', ToggleOps)
               /\ Get(last'.todo).id = Get(last'.id)
               /\ Get(last'.todo).completed = ~Get(last'.before).completed
               /\ Get(last'.todo).title = Get(last'.before).title
               /\ Get(last'.todo).description = Get(last'.before).description
               /\ last'.todo = Before(backend, table', Get(last'.id))
               /\ \A r \in table : r.id # Get(last'.id) => r \in table'
          ELSE /\ last'.outcome = "null"
               /\ last'.todo = None
               /\ table' = table]_vars

\* a toggle has reopened a completed record that has a description
C11_Witness ==
    /\ Returned(last, ToggleOps)
    /\ Get(last.before).completed = TRUE
    /\ Get(last.todo).completed = FALSE
    /\ Get(last.todo).description = Some(Str_d)

(***************************************************************************)
(* C12.  Input that fails validation never reaches the store: a create or *)
(* an update either reaches the store with every field of its input       *)
(* within the constraints of its schema, or is answered with an error     *)
(* (by the router, a validation error naming the violated fields) and     *)
(* leaves the stored records unchanged.                                    *)
(***************************************************************************)
C12_InvalidInputNeverReachesStore ==
    [][last'.op \in CreateOps \cup UpdateOps =>
          IF last'.reached
          THEN /\ last'.op \in CreateOps => IsSome(last'.data.title)
               /\ IsSome(last'.data.title) =>
                      Len(Get(last'.data.title)) \in 1..TitleMaxLen
               /\ IsSome(last'.data.description) =>
                      Len(Get(last'.data.description)) \in 0..DescriptionMaxLen
          ELSE /\ last'.fields # {}
               /\ IsError(last')
               /\ last'.op \in {"router.create", "router.update"} =>
                      last'.outcome = "validation"
               /\ last'.todo = None
               /\ table' = table
               /\ issued' = issued]_vars

\* an update of a present record was rejected for its title and description
C12_Witness ==
    /\ last.op \in UpdateOps
    /\ ~last.reached
    /\ last.fields = {"title", "description"}
    /\ Get(last.id) \in Ids(table)

(***************************************************************************)
(* C13.  Unless storage fails, a list returns exactly the present Todos,  *)
(* each once, ordered by createdAt descending; on an empty store it       *)
(* returns the empty sequence and not an error.                            *)
(***************************************************************************)
C13_ListIsThePresentTodosNewestFirst ==
    (last.op \in ListOps /\ last.io = "ok") =>
        /\ last.outcome = "ok"
        /\ Len(last.list) = Cardinality(table)
        /\ {last.list[k] : k \in DOMAIN last.list} =
               {RowToTodo(backend, r) : r \in table}
        /\ \A j, k \in DOMAIN last.list :
               j < k => last.list[j].createdAt >= last.list[k].createdAt
        /\ table = {} => last.list = <<>>

\* a list has returned an older record after a newer one
C13_Witness ==
    /\ last.op \in ListOps
    /\ Len(last.list) = 2
    /\ last.list[1].createdAt > last.list[2].createdAt
    /\ last.list[1].id < last.list[2].id

(***************************************************************************)
(* C14.  Concurrent updates resolve as last write wins: when an update    *)
(* has completed its store call, the record holds, for every field of the *)
(* update's input, the value of that input, whatever other handlers wrote *)
(* to the record while the update was suspended.                           *)
(***************************************************************************)
C14_LastWriteWins ==
    Returned(last, UpdateOps) =>
        LET stored == Before(backend, table, Get(last.id))
        IN  /\ IsSome(stored)
            /\ last.todo = stored
            /\ IsSome(last.data.title) => Get(stored).title = Get(last.data.title)
            /\ IsSome(last.data.description) =>
                   Get(stored).description = last.data.description
            /\ IsSome(last.data.completed) =>
                   Get(stored).completed = Get(last.data.completed)

\* an update that set completed has completed after another handler, which
\* started later, had written the other value to the same record
C14_Witness ==
    /\ Returned(last, UpdateOps)
    /\ "completed" \in last.raced
    /\ last.data.completed = Some(TRUE)
    /\ Get(last.before).completed = FALSE
    /\ Get(last.todo).completed = TRUE

(***************************************************************************)
(* C15.  A create, update or delete changes no record with another id,    *)
(* also while handlers on other ids are suspended; the record it writes   *)
(* is whole (an update writes every field of its input in one step), and  *)
(* a read returns a record as the store holds it.                          *)
(***************************************************************************)
C15_OtherRecordsUntouched ==
    [][/\ (last'.op \in CreateOps \cup UpdateOps \cup DeleteOps /\ last'.reached) =>
              /\ \A r \in table : Some(r.id) # last'.id => r \in table'
              /\ \A q \in table' \ table :
                     /\ last'.op \in CreateOps =>
                            q.id \notin Ids(table) /\ last'.todo = Some(RowToTodo(backend, q))
                     /\ last'.op \in UpdateOps =>
                            /\ Some(q.id) = last'.id
                            /\ \A f \in Given(last'.data) \cap {"title", "completed"} :
                                   q[f] = Get(last'.data[f])
                     /\ last'.op \notin DeleteOps
              /\ last'.op \in CreateOps => table \subseteq table'
       /\ Returned(last', GetOps) =>
              \E r \in table : last'.todo = Some(RowToTodo(backend, r))]_vars

\* an update of one record has completed while a handler on another
\* record of the store is suspended
C15_Witness ==
    /\ Returned(last, UpdateOps)
    /\ Get(last.todo) # Get(last.before)
    /\ \E f \in inflight :
           /\ IsSome(f.id)
           /\ f.id # last.id
           /\ Get(f.id) \in Ids(table)

SameLetter(c, d) == c = d \/ {c, d} = {"a", "A"} \/ {c, d} = {"b", "B"}

\* q occurs in s when case is ignored
OccursIgnoringCase(q, s) ==
    \E k \in 0..(Len(s) - Len(q)) : \A j \in 1..Len(q) : SameLetter(s[k + j], q[j])

\* todo satisfies both predicates of filter
Satisfies(todo, filter) ==
    /\ IsSome(filter.completed) => todo.completed = Get(filter.completed)
    /\ (IsSome(filter.search) /\ Get(filter.search) # <<>>) =>
          \/ OccursIgnoringCase(Get(filter.search), todo.title)
          \/ /\ IsSome(todo.description)
             /\ OccursIgnoringCase(Get(filter.search), Get(todo.description))

\* out holds exactly the records of todos at the positions K, each once and
\* in the order of todos (the record at position k of an input has id k)
KeepsExactly(out, todos, K) ==
    /\ {out[j].id : j \in DOMAIN out} = K
    /\ \A j \in DOMAIN out : out[j] = todos[out[j].id]
    /\ \A j, m \in DOMAIN out : j < m => out[j].id < out[m].id

\* C17: filtering keeps exactly the records that satisfy both predicates --
\* completed equals the flag when one is given, and a non-empty search occurs,
\* case ignored, in the title or in the description -- and a record without
\* description never matches on its description.
C17_FilterKeepsExactlyTheMatches ==
    view.fn \in {"filterTodos", "filteredTodos"} =>
        KeepsExactly(view.out, view.todos,
                     {k \in DOMAIN view.todos : Satisfies(view.todos[k], view.filter)})

\* both predicates given, the search in another case than the text; one record
\* is kept for its description and one without description is dropped
C17_Witness ==
    /\ view.fn = "filteredTodos"
    /\ view.filter = [completed |-> Some(TRUE), search |-> Some(<<"B">>)]
    /\ \E j \in DOMAIN view.out :
          /\ ~OccursIgnoringCase(<<"B">>, view.out[j].title)
          /\ IsSome(view.out[j].description)
    /\ \E k \in DOMAIN view.todos :
          /\ view.todos[k].description = None
          /\ view.todos[k].completed
          /\ \A j \in DOMAIN view.out : view.out[j].id # k

\* a and b hold every record of todos exactly once between them
Partition(a, b, todos) ==
    LET A == {a[j].id : j \in DOMAIN a}
        B == {b[j].id : j \in DOMAIN b}
    IN  /\ A \cap B = {}
        /\ A \cup B = DOMAIN todos
        /\ Len(a) + Len(b) = Len(todos)
        /\ \A j \in DOMAIN a : a[j] = todos[a[j].id]
        /\ \A j \in DOMAIN b : b[j] = todos[b[j].id]

\* C18: the records kept for completed: true and those kept for completed:
\* false are disjoint and together hold every record of the input exactly
\* once; so do the two groups of groupTodosByStatus.
C18_CompletedAndPendingPartition ==
    /\ (view.fn = "filterTodos" /\ view.filter.search = None
          /\ IsSome(view.filter.completed)) =>
          Partition(view.out,
                    filterTodos(view.todos,
                                [completed |-> Some(~Get(view.filter.completed)),
                                 search |-> None]),
                    view.todos)
    /\ view.fn = "groupTodosByStatus" => Partition(view.out, view.rest, view.todos)

\* a filter on completed: true that keeps some records and drops others
C18_Witness ==
    /\ view.fn = "filterTodos"
    /\ view.filter = [completed |-> Some(TRUE), search |-> None]
    /\ view.out # <<>>
    /\ Len(view.out) < Len(view.todos)

\* the place of a letter in the alphabet, whatever its case
LetterRank(c) ==
    CASE c = " " -> 0 [] c \in {"a", "A"} -> 1 [] c \in {"b", "B"} -> 2 [] c = "d" -> 4

\* s comes before t in the dictionary when case is ignored
RECURSIVE BeforeIgnoringCase(_, _)
BeforeIgnoringCase(s, t) ==
    /\ t # <<>>
    /\ \/ s = <<>>
       \/ LetterRank(Head(s)) < LetterRank(Head(t))
       \/ /\ LetterRank(Head(s)) = LetterRank(Head(t))
          /\ BeforeIgnoringCase(Tail(s), Tail(t))

\* the sort key of a comes before that of b
KeyBefore(a, b, sortBy) ==
    CASE sortBy = "title" -> BeforeIgnoringCase(a.title, b.title)
      [] sortBy = "completed" -> ~a.completed /\ b.completed
      [] sortBy = "updatedAt" -> a.updatedAt < b.updatedAt
      [] sortBy = "createdAt" -> a.createdAt < b.createdAt

SameKey(a, b, sortBy) == ~KeyBefore(a, b, sortBy) /\ ~KeyBefore(b, a, sortBy)

Reverse(s) == [k \in 1..Len(s) |-> s[Len(s) + 1 - k]]

\* out holds the records of todos in the given order of their keys, records
\* with equal keys in the order they have in todos
StablySorted(out, todos, sortBy, order) ==
    /\ Len(out) = Len(todos)
    /\ {out[j].id : j \in DOMAIN out} = DOMAIN todos
    /\ \A j \in DOMAIN out : out[j] = todos[out[j].id]
    /\ \A j, m \in DOMAIN out : j < m =>
          /\ order = "asc" => ~KeyBefore(out[m], out[j], sortBy)
          /\ order = "desc" => ~KeyBefore(out[j], out[m], sortBy)
          /\ SameKey(out[j], out[m], sortBy) => out[j].id < out[m].id

\* sorting the result by title, descending, gives the result reversed
DescendingReverses(out) == sortTodos(out, "title", "desc") = Reverse(out)

\* C19 as stated: the sort is stable under both orders with the title compared
\* without regard to case, and sorting by title ascending and then descending
\* gives the reversed order whenever no two records have the same title.
C19_ReversesWithoutDuplicateTitles ==
    view.fn = "sortTodos" =>
        /\ StablySorted(view.out, view.todos, view.sortBy, view.order)
        /\ (/\ view.sortBy = "title"
            /\ view.order = "asc"
            /\ \A j, m \in DOMAIN view.todos :
                  j # m => view.todos[j].title # view.todos[m].title)
           => DescendingReverses(view.out)

\* C19: the sort is stable under both orders with the title compared without
\* regard to case, and sorting by title ascending and then descending gives
\* the reversed order whenever no two titles are equal when case is ignored.
C19_ReversesWithoutEqualTitleKeys ==
    view.fn = "sortTodos" =>
        /\ StablySorted(view.out, view.todos, view.sortBy, view.order)
        /\ (/\ view.sortBy = "title"
            /\ view.order = "asc"
            /\ \A j, m \in DOMAIN view.todos :
                  j # m => ~SameKey(view.todos[j], view.todos[m], "title"))
           => DescendingReverses(view.out)

\* three titles, different whatever the case, that the ascending sort reorders
C19_Witness ==
    /\ view.fn = "sortTodos"
    /\ view.sortBy = "title"
    /\ view.order = "asc"
    /\ Len(view.todos) = 3
    /\ \A j, m \in DOMAIN view.todos :
          j # m => ~SameKey(view.todos[j], view.todos[m], "title")
    /\ view.out # view.todos
    /\ DescendingReverses(view.out)

\* C20: the statistics of a Todo sequence have total equal to its length and
\* total equal to completed plus pending; for the empty sequence total,
\* completed, pending and completionRate are all 0.
C20_StatsAddUp ==
    view.fn \in {"calculateTodoStats", "getTodoStats"} =>
        /\ view.stats.total = Len(view.todos)
        /\ view.stats.total = view.stats.completed + view.stats.pending
        /\ view.todos = <<>> =>
              /\ view.stats.total = 0
              /\ view.stats.completed = 0
              /\ view.stats.pending = 0
              /\ view.stats.completionRate = 0

\* statistics of a sequence with completed and pending records
C20_Witness ==
    /\ view.fn = "calculateTodoStats"
    /\ Len(view.todos) = 3
    /\ view.stats.completed = 2
    /\ view.stats.pending = 1
    /\ view.stats.completionRate = 67

\* r is an integer nearest to 100 * completed / total
NearestPercent(r, completed, total) ==
    LET d == 100 * completed - r * total
    IN  2 * (IF d < 0 THEN 0 - d ELSE d) <= total

\* C21: completionRate is 100 * completed / total rounded to the nearest
\* integer when total > 0 and 0 when total = 0, and it is always an integer
\* between 0 and 100.
C21_CompletionRateIsTheRoundedPercentage ==
    view.fn \in {"calculateTodoStats", "getTodoStats"} =>
        /\ view.stats.completionRate \in 0..100
        /\ view.stats.total = 0 => view.stats.completionRate = 0
        /\ view.stats.total > 0 =>
              NearestPercent(view.stats.completionRate, view.stats.completed,
                             view.stats.total)

\* a rate the rounding takes upwards: two of three records completed
C21_Witness ==
    /\ view.fn = "getTodoStats"
    /\ view.stats.total = 3
    /\ view.stats.completed = 2
    /\ view.stats.completionRate = 67

(***************************************************************************)
(* Properties of the validation.                                           *)
(***************************************************************************)
TitleMessages == {"title is required", "title is too long"}
DescriptionMessages == {"description is too long"}

Messages(errors) == {errors[k] : k \in DOMAIN errors}

\* the title of the input is missing, blank or longer than max
TitleViolates(title, max) ==
    ~IsSome(title) \/ Trim(Get(title)) = <<>> \/ Len(Get(title)) > max

\* the description of the input is longer than max
DescriptionViolates(description, max) ==
    IsSome(description) /\ Len(Get(description)) > max

Trimmed(o) == IF IsSome(o) THEN Some(Trim(Get(o))) ELSE o

\* C22: validation of a create input reports every violated field: a violated
\* title has a message, a violated description has a message, and when both
\* are violated there is a message for each.
C22_EveryViolatedFieldIsReported ==
    /\ view.fn = "validateTodoInput" =>
          /\ TitleViolates(view.input.title, FormTitleMaxLen) =>
                Messages(view.errors) \cap TitleMessages # {}
          /\ DescriptionViolates(view.input.description, FormDescriptionMaxLen) =>
                Messages(view.errors) \cap DescriptionMessages # {}
    /\ view.fn = "TodoForm.handleSubmit" =>
          /\ TitleViolates(Trimmed(view.input.title), FormTitleMaxLen) =>
                IsSome(view.newErrors.title)
          /\ DescriptionViolates(Trimmed(view.input.description), FormDescriptionMaxLen) =>
                IsSome(view.newErrors.description)
    /\ view.fn = "CreateTodoSchema.parse" =>
          /\ (~IsSome(view.input.title) \/ Get(view.input.title) = <<>>
                 \/ Len(Get(view.input.title)) > TitleMaxLen) =>
                "title" \in view.issues
          /\ DescriptionViolates(view.input.description, DescriptionMaxLen) =>
                "description" \in view.issues

\* a title and a description that are both too long, and a message for each
C22_Witness ==
    /\ view.fn = "validateTodoInput"
    /\ IsSome(view.input.title)
    /\ IsSome(view.input.description)
    /\ Len(Get(view.input.title)) > FormTitleMaxLen
    /\ Len(Get(view.input.description)) > FormDescriptionMaxLen
    /\ view.errors = <<"title is too long", "description is too long">>

\* the bounds a validator puts on the title and on the description
TitleBound(fn) == IF fn = "CreateTodoSchema.parse" THEN TitleMaxLen ELSE FormTitleMaxLen
DescriptionBound(fn) ==
    IF fn = "CreateTodoSchema.parse" THEN DescriptionMaxLen ELSE FormDescriptionMaxLen

Validators == {"validateTodoInput", "TodoForm.handleSubmit", "CreateTodoSchema.parse"}

\* C23 as stated: whitespace around the title and the description is stripped
\* before the length checks and before storage -- an input whose trimmed
\* title and description are within the bounds is accepted whatever its raw
\* lengths, and no title or description handed on for storage begins or ends
\* with whitespace.
C23_TrimmedBeforeChecksAndStorage ==
    view.fn \in Validators =>
        /\ (/\ IsSome(view.input.title)
            /\ Trim(Get(view.input.title)) # <<>>
            /\ Len(Trim(Get(view.input.title))) <= TitleBound(view.fn)
            /\ IsSome(view.input.description) =>
                  Len(Trim(Get(view.input.description))) <= DescriptionBound(view.fn))
           => view.isValid
        /\ IsSome(view.passed) =>
              /\ Get(view.passed).title = Trimmed(Get(view.passed).title)
              /\ Get(view.passed).description = Trimmed(Get(view.passed).description)

(***************************************************************************)
(* C24 as stated: an absent description is distinct from an empty one -- a *)
(* record created or updated with description "" is read back with        *)
(* description "", and a record created without description is read back  *)
(* with the description absent.                                            *)
(***************************************************************************)
C24_EmptyDescriptionIsNotAbsent ==
    /\ (Returned(last, CreateOps \cup UpdateOps) /\ IsSome(last.data.description)) =>
          Get(last.todo).description = last.data.description
    /\ (Returned(last, CreateOps) /\ ~IsSome(last.data.description)) =>
          Get(last.todo).description = None
    /\ Returned(last, GetOps) =>
          \A r \in Find(table, Get(last.id)) :
              Get(last.todo).description = r.description

HelperNames ==
    {"filterTodos", "filteredTodos", "sortTodos", "groupTodosByStatus",
     "calculateTodoStats", "getTodoStats"}

C26_EveryToggleFlips ==
    (Returned(last, ToggleOps) /\ IsSome(last.before)) =>
        Get(last.todo).completed = ~Get(last.before).completed

(***************************************************************************)
(* C27 as stated: every element of the local list of the home page is a   *)
(* Todo record, never null, after any sequence of its create, update,     *)
(* toggle and delete handlers, also when the target of an update or a     *)
(* toggle was meanwhile deleted from the store by another client.         *)
(***************************************************************************)
C27_HomeListHoldsTodosOnly ==
    \A k \in DOMAIN home : IsSome(home[k])

(***************************************************************************)
(* C28 as stated: every title the create and update schemas accept fits   *)
(* the title column -- a create or update whose input passed validation   *)
(* and carries a title fails in the store only when the storage fails.    *)
(***************************************************************************)
C28_AcceptedTitleFitsTheColumn ==
    (/\ last.op \in CreateOps \cup UpdateOps
     /\ last.reached
     /\ IsSome(last.data.title)
     /\ last.io = "ok") => last.outcome # "error"

(***************************************************************************)
(* C29.  Concurrent updates of one record that set disjoint fields both   *)
(* take effect: an update that completes after another handler wrote      *)
(* fields its own input does not carry leaves those fields as that        *)
(* handler wrote them, and sets its own; the record then carries both new *)
(* values, whichever update completed last.                                *)
(***************************************************************************)
C29_DisjointUpdatesBothTakeEffect ==
    (Returned(last, UpdateOps) /\ IsSome(last.before)) =>
        LET todo == Get(last.todo)
            before == Get(last.before)
            others == last.raced \ Given(last.data)
        IN  /\ "title" \in others => todo.title = before.title
            /\ "description" \in others => todo.description = before.description
            /\ "completed" \in others => todo.completed = before.completed
            /\ IsSome(last.data.title) => todo.title = Get(last.data.title)
            /\ IsSome(last.data.completed) => todo.completed = Get(last.data.completed)

\* an update of completed completes after an update of the title, which
\* started later: the record carries the new title and the new completed
C29_Witness ==
    /\ Returned(last, UpdateOps)
    /\ last.raced = {"title"}
    /\ Given(last.data) = {"completed"}
    /\ Get(last.before).title = Str_blank
    /\ Get(last.before).completed = ~Get(last.data.completed)
    /\ Get(last.todo).title = Str_blank
    /\ Get(last.todo).completed = Get(last.data.completed)

\* the store shows what the call did
Applied(call) ==
    IF call.op = "delete" THEN Find(table, Get(call.id)) = {}
    ELSE \A r \in Find(table, Get(call.id)) :
             r.completed = Get(call.data.completed)

\* no other call of the batch names the record of this one
OnlyCallOn(call) == \A other \in page.calls : other.id = call.id => other = call

(***************************************************************************)
(* C30.  The batches are not all-or-nothing: every call is issued before  *)
(* any is awaited; the batch rejects only when one of its calls failed    *)
(* and resolves only when all succeeded; and after the rejection every    *)
(* other call that succeeded is still applied in the store.               *)
(***************************************************************************)
C30_RejectedBatchKeepsWhatSucceeded ==
    /\ page.batch = "rejected" =>
          /\ \E call \in page.calls : call.answer = "error"
          /\ \A call \in page.calls :
                (call.answer = "ok" /\ OnlyCallOn(call)) => Applied(call)
    /\ page.batch = "resolved" => \A call \in page.calls : call.answer = "ok"

\* a rejected batch of two calls: one failed, the other changed the store
C30_Witness ==
    /\ page.batch = "rejected"
    /\ Cardinality(page.calls) = 2
    /\ \E call \in page.calls : call.answer = "error"
    /\ \E call \in page.calls :
          /\ call.answer = "ok"
          /\ OnlyCallOn(call)
          /\ Applied(call)
    /\ table # page.snapshot

====
